---------------------------- MODULE Spec2Model ----------------------------
(***************************************************************************)
(* Discrete hidden Markov model inference and learning (jsl/hmm/hmm_lib.py) *)
(* modelled over exact arithmetic.                                           *)
(*                                                                           *)
(* Numbers.  A float of the program is modelled by a non-negative rational   *)
(* [n |-> numerator, d |-> denominator] in lowest terms, extended with the   *)
(* two IEEE values the code can produce by dividing by zero:                 *)
(*   NaN = [n |-> 0, d |-> 0]   (0/0)     Inf = [n |-> 1, d |-> 0]   (x/0)   *)
(* Rounding is not modelled: sums and products are exact.                    *)
(*                                                                           *)
(* Log space.  np.log(x) is modelled by the record [exp |-> x], so that      *)
(* log(a) + log(b) is [exp |-> a * b], log(0) = -inf is [exp |-> 0] and the  *)
(* order of two logs is the order of their arguments.                        *)
(*                                                                           *)
(* Arrays are functions over 0 .. len-1, indexed as in the source; a         *)
(* negative python index i of an array of length len is the index len + i.   *)
(***************************************************************************)
EXTENDS Integers, Sequences, FiniteSets, TLC

VARIABLES
    params,         \* the model handed to the call: trans_mat, obs_mat, init_dist
    obs_seq,        \* the padded observation sequence of the call
    pad_seq,        \* obs_seq with the symbols at positions >= length changed
    length,         \* the valid length of obs_seq
    op,             \* the function called last ("none" before the first call)
    ret,            \* what the call returned
    ret_pad,        \* what the same call returned on the re-padded input
    observations,   \* the batch of padded observation sequences of an E-step
    pad_observations, \* observations with the symbols of the padding changed
    valid_lengths,  \* the valid length of each sequence of the batch
    m_counts,       \* the counts handed to the M-step
    m_priors,       \* the priors handed to the M-step
    arg_n_hidden,   \* hmm_em_*: the argument n_hidden (<<>> is None)
    arg_n_obs,      \* hmm_em_*: the argument n_obs (<<>> is None)
    init_params,    \* hmm_em_*: the local init_params
    num_epochs,     \* hmm_em_*: the argument num_epochs
    epoch,          \* hmm_em_*: the iterations of the epoch loop done so far
    neg_loglikelihoods, \* hmm_em_*: the local neg_loglikelihoods
    pc,             \* hmm_em_*: where the call is
    opt_globals,    \* the module globals opt_init, opt_update, get_params
    fits,           \* fit: the locals of each call in progress
    norm_u,         \* normalize: the argument u
    norm_axis,      \* normalize: the argument axis
    norm_eps        \* normalize: the argument eps

\* the variables of a call of hmm_em_numpy / hmm_em_jax
emVars == <<arg_n_hidden, arg_n_obs, init_params, num_epochs, epoch,
            neg_loglikelihoods, pc>>

\* the variables of the calls of fit
fitVars == <<opt_globals, fits>>

\* the variables of a call of normalize_numpy / normalize
normVars == <<norm_u, norm_axis, norm_eps>>

vars == <<params, obs_seq, pad_seq, length, op, ret, ret_pad,
          observations, pad_observations, valid_lengths, m_counts, m_priors,
          emVars, fitVars, normVars>>

-----------------------------------------------------------------------------
(* Bounds of the model *)

\* longest padded observation sequence (T_max)
MaxSeqLen == 3

\* most sequences in a batch (N)
MaxBatch == 2

-----------------------------------------------------------------------------
(* Exact arithmetic *)

RECURSIVE GCD(_, _)
GCD(a, b) == IF b = 0 THEN a ELSE GCD(b, a % b)

\* n/d with the common factor g of n and d cancelled
Cancel(n, d, g) == [n |-> n \div g, d |-> d \div g]

Rat(n, d) == Cancel(n, d, GCD(n, d))

Zero == [n |-> 0, d |-> 1]
One  == [n |-> 1, d |-> 1]
NaN  == [n |-> 0, d |-> 0]
Inf  == [n |-> 1, d |-> 0]

IsNaN(x)    == x.d = 0 /\ x.n = 0
IsInf(x)    == x.d = 0 /\ x.n # 0
IsFinite(x) == x.d # 0
\* x == 0 as IEEE compares it: false for NaN and Inf
IsZero(x)   == x.d # 0 /\ x.n = 0

\* x + y for finite x and y, over the common denominator x.d * y.d / g
AddOver(x, y, g) ==
    Rat(x.n * (y.d \div g) + y.n * (x.d \div g), (x.d \div g) * y.d)

\* x + y
Add(x, y) ==
    IF IsNaN(x) \/ IsNaN(y) THEN NaN
    ELSE IF IsInf(x) \/ IsInf(y) THEN Inf
    ELSE AddOver(x, y, GCD(x.d, y.d))

\* x * y for finite non-zero x and y, with the common factors g1 of x.n
\* and y.d and g2 of y.n and x.d cancelled
MulCancel(x, y, g1, g2) ==
    [n |-> (x.n \div g1) * (y.n \div g2), d |-> (x.d \div g2) * (y.d \div g1)]

\* x * y
Mul(x, y) ==
    IF IsNaN(x) \/ IsNaN(y) THEN NaN
    ELSE IF IsInf(x) \/ IsInf(y)
         THEN (IF IsZero(x) \/ IsZero(y) THEN NaN ELSE Inf)
    ELSE IF x.n = 0 \/ y.n = 0 THEN Zero
    ELSE MulCancel(x, y, GCD(x.n, y.d), GCD(y.n, x.d))

\* x / y, with IEEE's 0/0 = nan and x/0 = inf
Div(x, y) ==
    IF IsNaN(x) \/ IsNaN(y) THEN NaN
    ELSE IF IsInf(y) THEN (IF IsInf(x) THEN NaN ELSE Zero)
    ELSE IF IsInf(x) THEN Inf
    ELSE IF y.n = 0 THEN (IF x.n = 0 THEN NaN ELSE Inf)
    ELSE Mul(x, [n |-> y.d, d |-> y.n])

\* x < y for finite x and y, g a common factor of the denominators
LessOver(x, y, g) == x.n * (y.d \div g) < y.n * (x.d \div g)

\* x < y, false when either is NaN
Less(x, y) ==
    IF IsNaN(x) \/ IsNaN(y) THEN FALSE
    ELSE IF IsInf(x) THEN FALSE
    ELSE IF IsInf(y) THEN TRUE
    ELSE LessOver(x, y, GCD(x.d, y.d))

\* sum of the entries of the array v over the index set 0 .. k-1
RECURSIVE SumTo(_, _)
SumTo(v, k) == IF k = 0 THEN Zero ELSE Add(SumTo(v, k - 1), v[k - 1])

\* an array holds its entries computed, not the expression that gives
\* them: comparing f with itself makes TLC evaluate every entry once
Array(f) == IF f = f THEN f ELSE f

Len0(v) == Cardinality(DOMAIN v)

\* a[i] for a python index i of an array of length n: a negative i counts
\* from the end
PyIdx(n, i) == IF i < 0 THEN n + i ELSE i

\* v.sum()
VSum(v) == SumTo(v, Len0(v))

\* np.log and the sum of two logs
Log(x)       == [exp |-> x]
LogAdd(a, b) == [exp |-> Mul(a.exp, b.exp)]

-----------------------------------------------------------------------------
(* normalize_numpy / normalize *)

\* eps = 1e-15 = 1 / EpsRoot^3
EpsRoot == 100000

CeilDiv(a, b) == (a + b - 1) \div b

\* u < eps for a finite u = n/d:  n * EpsRoot^3 < d, computed without
\* leaving the machine integers as n < ceil(d / EpsRoot^3)
BelowEps(u) ==
    /\ IsFinite(u)
    /\ u.n < CeilDiv(CeilDiv(CeilDiv(u.d, EpsRoot), EpsRoot), EpsRoot)

\* the value eps itself
EpsValue(u) == [n |-> 1, d |-> EpsRoot * EpsRoot * EpsRoot]

\* np.where(u == 0, 0, np.where(u < eps, eps, u)), elementwise
Clamp(u) ==
    Array([i \in DOMAIN u |->
              IF IsZero(u[i]) THEN Zero
              ELSE IF BelowEps(u[i]) THEN EpsValue(u[i])
              ELSE u[i]])

\* return u / c, c
normalize_return(u, c) == [v |-> Array([i \in DOMAIN u |-> Div(u[i], c)]), c |-> c]

\* the division by the sum as it is, zero included
normalize_guard_unguarded(u, c) == normalize_return(u, c)

\* c = np.where(c == 0, 1, c)
normalize_guard(u, c) == normalize_return(u, IF IsZero(c) THEN One ELSE c)

\* c = u.sum(axis=axis)
normalize_sum(u) == normalize_guard(u, VSum(u))

normalize_numpy(u) == normalize_sum(Clamp(u))

-----------------------------------------------------------------------------
(* HMMNumpy / HMMJax : the models the calls are made with *)

\* a python list as an array indexed from 0
Arr(s) == [i \in 0 .. Len(s) - 1 |-> s[i + 1]]

\* an array of rationals from a list of numerators over the denominator d
Row(s, d) == [i \in 0 .. Len(s) - 1 |-> Rat(s[i + 1], d)]

HMM(A, B, pi) == [trans_mat |-> A, obs_mat |-> B, init_dist |-> pi]

\* trans_mat = [[0.7,0.3],[0.3,0.7]], obs_mat = [[0.9,0.1],[0.2,0.8]],
\* init_dist = [0.5,0.5]
GoldenModel ==
    HMM(Arr(<<Row(<<7, 3>>, 10), Row(<<3, 7>>, 10)>>),
        Arr(<<Row(<<9, 1>>, 10), Row(<<2, 8>>, 10)>>),
        Row(<<1, 1>>, 2))

\* a strictly positive model without symmetry
SkewModel ==
    HMM(Arr(<<Row(<<1, 1>>, 2), Row(<<1, 3>>, 4)>>),
        Arr(<<Row(<<3, 1>>, 4), Row(<<1, 1>>, 2)>>),
        Row(<<1, 3>>, 4))

\* a model with zero entries: state 0 never emits symbol 1 and is never
\* re-entered from state 1
SparseModel ==
    HMM(Arr(<<Row(<<1, 1>>, 2), Row(<<0, 1>>, 1)>>),
        Arr(<<Row(<<1, 0>>, 1), Row(<<1, 1>>, 2)>>),
        Row(<<1, 0>>, 1))

\* three states, with ties between states 1 and 2
TieModel ==
    HMM(Arr(<<Row(<<2, 1, 1>>, 4), Row(<<1, 2, 1>>, 4), Row(<<1, 1, 2>>, 4)>>),
        Arr(<<Row(<<3, 1>>, 4), Row(<<1, 3>>, 4), Row(<<1, 3>>, 4)>>),
        Row(<<2, 1, 1>>, 4))

\* every state moves to state 1, which emits symbol 0 only
FunnelModel ==
    HMM(Arr(<<Row(<<0, 1>>, 1), Row(<<0, 1>>, 1)>>),
        Arr(<<Row(<<1, 1>>, 2), Row(<<1, 0>>, 1)>>),
        Row(<<1, 0>>, 1))

Models == {GoldenModel, SkewModel, SparseModel, TieModel, FunnelModel}

\* n_states, n_obs = obs_mat.shape
NStates(p) == Len0(p.obs_mat)
NObs(p)    == Len0(p.obs_mat[0])

States(p)  == 0 .. NStates(p) - 1
Symbols(p) == 0 .. NObs(p) - 1

\* np.zeros(n), np.ones(n)
Zeros(n) == Array([i \in 0 .. n - 1 |-> Zero])
Ones(n)  == Array([i \in 0 .. n - 1 |-> One])

\* obs_mat[:, o]
ObsCol(p, o) == Array([j \in States(p) |-> p.obs_mat[j][PyIdx(NObs(p), o)]])

\* u * v, elementwise
VMul(u, v) == Array([i \in DOMAIN u |-> Mul(u[i], v[i])])

-----------------------------------------------------------------------------
(* hmm_forwards_numpy *)

\* the prediction with the sum taken over the wrong axis
Predict_untransposed(p, alpha) ==
    Array([j \in States(p) |->
              VSum([i \in States(p) |-> Mul(alpha[i], p.trans_mat[j][i])])])

\* (alpha_n[:, None] * trans_mat).sum(axis=0)
Predict(p, alpha) ==
    Array([j \in States(p) |->
              VSum([i \in States(p) |-> Mul(alpha[i], p.trans_mat[i][j])])])

\* the assignments with ll_hist[t] = np.log(cn), the running sum lost
forwards_numpy_store_unaccumulated(t, h, nrm) ==
    [alpha_hist |-> [h.alpha_hist EXCEPT ![t] = nrm.v],
     ll_hist    |-> [h.ll_hist EXCEPT ![t] = Log(nrm.c)]]

\* alpha_hist[t] = alpha_n; ll_hist[t] = np.log(cn) + ll_hist[t-1], for
\* nrm = (alpha_n, cn) and the histories h = [alpha_hist, ll_hist]
forwards_numpy_store(t, h, nrm) ==
    [alpha_hist |-> [h.alpha_hist EXCEPT ![t] = nrm.v],
     ll_hist    |-> [h.ll_hist EXCEPT
                        ![t] = LogAdd(Log(nrm.c), h.ll_hist[t - 1])]]

\* the loop body that loses the running sum of the log-likelihood
forwards_numpy_body_unaccumulated(p, obs, t, h) ==
    forwards_numpy_store_unaccumulated(t, h,
        normalize_numpy(
            VMul(ObsCol(p, obs[t]), Predict(p, h.alpha_hist[t - 1]))))

\* the body of the loop "for t in range(1, length)" at step t;
\* alpha_n is alpha_hist[t - 1]
forwards_numpy_body(p, obs, t, h) ==
    forwards_numpy_store(t, h,
        normalize_numpy(
            VMul(ObsCol(p, obs[t]), Predict(p, h.alpha_hist[t - 1]))))

\* the loop from step t on
RECURSIVE forwards_numpy_loop(_, _, _, _, _)
forwards_numpy_loop(p, obs, len, t, h) ==
    IF t >= len THEN h
    ELSE forwards_numpy_loop(p, obs, len, t + 1,
                             forwards_numpy_body(p, obs, t, h))

\* return ll_hist[length - 1], alpha_hist
ForwardResult(h, len) ==
    [ll |-> h.ll_hist[PyIdx(Len0(h.ll_hist), len - 1)], alpha |-> h.alpha_hist]

\* the two histories after alpha_hist[0] = alpha_n, ll_hist[0] = np.log(cn)
forwards_numpy_init(seq_len, n_states, nrm) ==
    [alpha_hist |-> Array([t \in 0 .. seq_len - 1 |->
                              IF t = 0 THEN nrm.v ELSE Zeros(n_states)]),
     ll_hist    |-> Array([t \in 0 .. seq_len - 1 |->
                              IF t = 0 THEN Log(nrm.c) ELSE Log(One)])]

hmm_forwards_numpy(p, obs, len) ==
    ForwardResult(
        forwards_numpy_loop(p, obs, len, 1,
            forwards_numpy_init(Len0(obs), NStates(p),
                normalize_numpy(VMul(p.init_dist, ObsCol(p, obs[0]))))),
        len)

-----------------------------------------------------------------------------
(* hmm_forwards_jax *)

\* scan_fn(carry, t); c = [alpha, ll] is the carry (alpha_prev,
\* log_ll_prev) and c.alpha_hist the rows stacked so far
forwards_jax_carry(t, c, nrm) ==
    [alpha |-> nrm.v, ll |-> LogAdd(Log(nrm.c), c.ll),
     alpha_hist |-> [c.alpha_hist EXCEPT ![t] = nrm.v]]

forwards_jax_scan_fn(p, obs, len, t, c) ==
    forwards_jax_carry(t, c,
        normalize_numpy(IF t < len
                        THEN VMul(ObsCol(p, obs[t]), Predict(p, c.alpha))
                        ELSE Zeros(NStates(p))))

\* lax.scan(scan_fn, init_state, jnp.arange(1, seq_len)) from step t on
RECURSIVE forwards_jax_scan(_, _, _, _, _)
forwards_jax_scan(p, obs, len, t, c) ==
    IF t >= Len0(obs) THEN [ll |-> c.ll, alpha |-> c.alpha_hist]
    ELSE forwards_jax_scan(p, obs, len, t + 1,
                           forwards_jax_scan_fn(p, obs, len, t, c))

\* init_state = (alpha_0, jnp.log(c0)), with alpha_0 as row 0 of the stack
forwards_jax_init(seq_len, n_states, nrm) ==
    [alpha |-> nrm.v, ll |-> Log(nrm.c),
     alpha_hist |-> Array([t \in 0 .. seq_len - 1 |->
                              IF t = 0 THEN nrm.v ELSE Zeros(n_states)])]

\* hmm_forwards_jax with the mask "t < length" of scan_fn dropped
hmm_forwards_jax_unmasked(p, obs, len) ==
    forwards_jax_scan(p, obs, Len0(obs), 1,
        forwards_jax_init(Len0(obs), NStates(p),
            normalize_numpy(VMul(p.init_dist, ObsCol(p, obs[0])))))

hmm_forwards_jax(p, obs, len) ==
    forwards_jax_scan(p, obs, len, 1,
        forwards_jax_init(Len0(obs), NStates(p),
            normalize_numpy(VMul(p.init_dist, ObsCol(p, obs[0])))))

-----------------------------------------------------------------------------
(* hmm_backwards_numpy *)

\* the backward step with the sum taken over the wrong axis
BackStep_transposed(p, beta_next, o) ==
    Array([i \in States(p) |->
              VSum([j \in States(p) |->
                       Mul(Mul(beta_next[j], ObsCol(p, o)[j]), p.trans_mat[j][i])])])

\* (beta_next * obs_mat[:, o] * trans_mat).sum(axis=1)
BackStep(p, beta_next, o) ==
    Array([i \in States(p) |->
              VSum([j \in States(p) |->
                       Mul(Mul(beta_next[j], ObsCol(p, o)[j]), p.trans_mat[i][j])])])

\* beta_hist[-t] = beta_next, for b = [beta_next, beta_hist]
backwards_numpy_store(seq_len, t, b, beta_next) ==
    [beta_next |-> beta_next,
     beta_hist |-> [b.beta_hist EXCEPT ![PyIdx(seq_len, -t)] = beta_next]]

\* the body of the loop "for t in range(2, length + 1)" at step t
backwards_numpy_body(p, obs, t, b) ==
    backwards_numpy_store(Len0(obs), t, b,
        normalize_numpy(
            BackStep(p, b.beta_next, obs[PyIdx(Len0(obs), -t + 1)])).v)

\* the loop from step t on
RECURSIVE backwards_numpy_loop(_, _, _, _, _)
backwards_numpy_loop(p, obs, len, t, b) ==
    IF t > len THEN b.beta_hist
    ELSE backwards_numpy_loop(p, obs, len, t + 1,
                              backwards_numpy_body(p, obs, t, b))

hmm_backwards_numpy(p, obs, len) ==
    LET seq_len == Len0(obs)
        beta0   == Array([t \in 0 .. seq_len - 1 |->
                             IF t = PyIdx(seq_len, -1) THEN Ones(NStates(p))
                             ELSE Zeros(NStates(p))])
    IN  backwards_numpy_loop(p, obs, len, 2,
            [beta_next |-> Ones(NStates(p)), beta_hist |-> beta0])

-----------------------------------------------------------------------------
(* hmm_backwards_jax *)

\* scan_fn(beta_prev, t); b = [beta_prev, stacked], where stacked[k] is
\* the row scanned at t = k + 1 (row 0 is the initial beta_t)
backwards_jax_stack(t, b, beta_t) ==
    [beta_prev |-> beta_t, stacked |-> [b.stacked EXCEPT ![t - 1] = beta_t]]

backwards_jax_scan_fn(p, obs, len, t, b) ==
    backwards_jax_stack(t, b,
        IF t > len THEN Zeros(NStates(p))
        ELSE normalize_numpy(
                 BackStep(p, b.beta_prev, obs[PyIdx(Len0(obs), -t + 1)])).v)

\* lax.scan(scan_fn, beta_t, jnp.arange(2, seq_len + 1)) from step t on
RECURSIVE backwards_jax_scan(_, _, _, _, _)
backwards_jax_scan(p, obs, len, t, b) ==
    IF t > Len0(obs) THEN b.stacked
    ELSE backwards_jax_scan(p, obs, len, t + 1,
                            backwards_jax_scan_fn(p, obs, len, t, b))

\* jnp.flip(a, axis=0)
Flip(a) == Array([i \in DOMAIN a |-> a[Len0(a) - 1 - i]])

hmm_backwards_jax(p, obs, len) ==
    LET seq_len == Len0(obs)
        stack0  == Array([k \in 0 .. seq_len - 1 |->
                             IF k = 0 THEN Ones(NStates(p))
                             ELSE Zeros(NStates(p))])
    IN  Flip(backwards_jax_scan(p, obs, len, 2,
                 [beta_prev |-> Ones(NStates(p)), stacked |-> stack0]))

-----------------------------------------------------------------------------
(* hmm_forwards_backwards_numpy / hmm_forwards_backwards_jax *)

\* np.roll(a, shift, axis=0): out[i] = a[(i - shift) mod n]
Roll(a, shift) == Array([i \in DOMAIN a |-> a[(i - shift) % Len0(a)]])

\* gamma / np.where(normalizer == 0, 1, normalizer), one row
DivBy(row, normalizer) ==
    Array([i \in DOMAIN row |->
              Div(row[i], IF IsZero(normalizer) THEN One ELSE normalizer)])

DivBySum(row) == DivBy(row, VSum(row))

\* gamma = alpha * rolled, each row divided by its sum; fwd = (ll, alpha)
forwards_backwards_numpy_gamma(fwd, beta, rolled) ==
    [alpha |-> fwd.alpha, beta |-> beta,
     gamma |-> Array([t \in DOMAIN rolled |->
                         DivBySum(VMul(fwd.alpha[t], rolled[t]))]),
     ll    |-> fwd.ll]

\* the lines after the two passes with beta rolled the other way
forwards_backwards_numpy_roll_back(seq_len, len, fwd, beta) ==
    forwards_backwards_numpy_gamma(fwd, beta, Roll(beta, seq_len - len))

\* the lines after the two passes
forwards_backwards_numpy_roll(seq_len, len, fwd, beta) ==
    forwards_backwards_numpy_gamma(fwd, beta, Roll(beta, -seq_len + len))

\* forward-backward whose forward pass ignores length
hmm_forwards_backwards_numpy_unmasked(p, obs, len) ==
    forwards_backwards_numpy_roll(Len0(obs), len,
        hmm_forwards_numpy(p, obs, Len0(obs)),
        hmm_backwards_numpy(p, obs, len))

hmm_forwards_backwards_numpy(p, obs, len) ==
    forwards_backwards_numpy_roll(Len0(obs), len,
        hmm_forwards_numpy(p, obs, len),
        hmm_backwards_numpy(p, obs, len))

\* gamma_t(t) = jnp.where(t < length, alpha[t] * beta[t - length], zeros)
\* with n_states = alpha.shape[1], then normalize, row by row
forwards_backwards_jax_gamma(seq_len, len, fwd, beta) ==
    [alpha |-> fwd.alpha, beta |-> beta,
     gamma |-> Array([t \in 0 .. seq_len - 1 |->
                  normalize_numpy(
                      IF t < len
                      THEN VMul(fwd.alpha[t], beta[PyIdx(seq_len, t - len)])
                      ELSE Zeros(Len0(fwd.alpha[0]))).v]),
     ll    |-> fwd.ll]

hmm_forwards_backwards_jax(p, obs, len) ==
    forwards_backwards_jax_gamma(Len0(obs), len,
        hmm_forwards_jax(p, obs, len),
        hmm_backwards_jax(p, obs, len))

-----------------------------------------------------------------------------
(* hmm_viterbi_numpy / hmm_viterbi_jax *)

\* a < b for two logs
LogLess(a, b) == Less(a.exp, b.exp)

\* np.log(v), elementwise
VLog(v) == Array([i \in DOMAIN v |-> Log(v[i])])

\* the last index of a set of indices
Last(pick) == CHOOSE i \in pick : \A j \in pick : j <= i

\* np.argmax(v): the first index holding the maximum (the first nan, if any)
First(pick) == CHOOSE i \in pick : \A j \in pick : i <= j

ArgMaxAmong(nans, best) == First(IF nans # {} THEN nans ELSE best)

ArgMax(v) ==
    ArgMaxAmong({i \in DOMAIN v : IsNaN(v[i].exp)},
                {i \in DOMAIN v : \A j \in DOMAIN v : ~LogLess(v[i], v[j])})

\* p = prev_prob[..., None] + trans_mat + obs_prob[..., None, :], column j
ViterbiColumn(prev_prob, log_trans, obs_prob, j) ==
    Array([i \in DOMAIN prev_prob |->
              LogAdd(LogAdd(prev_prob[i], log_trans[i][j]), obs_prob[j])])

\* np.max(p, axis=-2) read off at the indices np.argmax(p, axis=-2); p is
\* held by columns
ViterbiMax(p, argmax) ==
    [max    |-> Array([j \in DOMAIN p |-> p[j][argmax[j]]]),
     argmax |-> argmax]

\* the backpointers taken at the last index holding the maximum
ViterbiArgMax_last(p) ==
    ViterbiMax(p, Array([j \in DOMAIN p |->
        Last({i \in DOMAIN p[j] :
                 \A k \in DOMAIN p[j] : ~LogLess(p[j][i], p[j][k])})]))

ViterbiArgMax(p) == ViterbiMax(p, Array([j \in DOMAIN p |-> ArgMax(p[j])]))

\* one step of the max-sum recursion
ViterbiStep(prev_prob, log_trans, obs_prob) ==
    ViterbiArgMax(Array([j \in DOMAIN prev_prob |->
                            ViterbiColumn(prev_prob, log_trans, obs_prob, j)]))

\* prev_prob = max_p_given_successor; most_likely_sources.append(...), for
\* v = [prev_prob, sources], where sources[k] is the backpointer array
\* appended for the observation at position k
viterbi_forward_append(k, v, step) ==
    [prev_prob |-> step.max,
     sources   |-> [v.sources EXCEPT ![k] = step.argmax]]

\* the body of the loop over obs_seq[1:] at position k
viterbi_forward_body(log_trans, log_obs, obs, k, v) ==
    viterbi_forward_append(k, v,
        ViterbiStep(v.prev_prob, log_trans,
            Array([j \in DOMAIN v.prev_prob |->
                      log_obs[j][PyIdx(Len0(log_obs[j]), obs[k])]])))

\* the loop from position k on
RECURSIVE viterbi_forward(_, _, _, _, _)
viterbi_forward(log_trans, log_obs, obs, k, v) ==
    IF k >= Len0(obs) THEN [final_prob |-> v.prev_prob, sources |-> v.sources]
    ELSE viterbi_forward(log_trans, log_obs, obs, k + 1,
                         viterbi_forward_body(log_trans, log_obs, obs, k, v))

\* a backward step that does not follow the backpointers
viterbi_backward_body_unfollowed(sources, k, b) ==
    [state |-> b.state, path |-> [b.path EXCEPT ![k - 1] = b.state]]

\* the body of the loop over reversed(most_likely_sources[1:]), for the
\* backpointers of position k; b = [state, path]: the pointed state becomes
\* the path's entry at position k - 1
viterbi_backward_body(sources, k, b) ==
    [state |-> sources[k][b.state],
     path  |-> [b.path EXCEPT ![k - 1] = sources[k][b.state]]]

\* the loop from position k down to 1
RECURSIVE viterbi_backward(_, _, _)
viterbi_backward(sources, k, b) ==
    IF k < 1 THEN b.path
    ELSE viterbi_backward(sources, k - 1, viterbi_backward_body(sources, k, b))

\* the backward loop from final_state, whose result ends with final_state
ViterbiTrace(seq_len, sources, final_state) ==
    viterbi_backward(sources, seq_len - 1,
        [state |-> final_state,
         path  |-> [k \in 0 .. seq_len - 1 |-> final_state]])

\* final_state = np.argmax(final_prob) and the path that ends there
ViterbiFinal(seq_len, fwd) ==
    ViterbiTrace(seq_len, fwd.sources, ArgMax(fwd.final_prob))

\* the decoder from first_prob on
ViterbiFrom(log_trans, log_obs, obs, first_prob) ==
    IF Len0(obs) = 1 THEN [k \in 0 .. 0 |-> ArgMax(first_prob)]
    ELSE ViterbiFinal(Len0(obs),
             viterbi_forward(log_trans, log_obs, obs, 1,
                 [prev_prob |-> first_prob,
                  sources   |-> [k \in 0 .. Len0(obs) - 1 |->
                                    [j \in DOMAIN first_prob |-> 0]]]))

\* the part of the decoder both versions share, given the three log tables
ViterbiPath(log_trans, log_obs, log_init, obs) ==
    ViterbiFrom(log_trans, log_obs, obs,
        Array([j \in DOMAIN log_init |->
                  LogAdd(log_init[j],
                         log_obs[j][PyIdx(Len0(log_obs[j]), obs[0])])]))

hmm_viterbi_numpy(p, obs) ==
    ViterbiPath(Array([i \in States(p) |-> VLog(p.trans_mat[i])]),
                Array([i \in States(p) |-> VLog(p.obs_mat[i])]),
                VLog(p.init_dist), obs)

\* jax.nn.log_softmax(jnp.log(v)) over the last axis: log(v) - log(sum(v))
LogSoftmaxOver(v, total) == Array([i \in DOMAIN v |-> Log(Div(v[i], total))])

LogSoftmaxOfLog(v) == LogSoftmaxOver(v, VSum(v))

\* the argument length is set from seq_len when None and never read again
hmm_viterbi_jax(p, obs, len) ==
    ViterbiPath(Array([i \in States(p) |-> LogSoftmaxOfLog(p.trans_mat[i])]),
                Array([i \in States(p) |-> VLog(p.obs_mat[i])]),
                LogSoftmaxOfLog(p.init_dist), obs)

-----------------------------------------------------------------------------
(* compute_expected_trans_counts_numpy / compute_expected_trans_counts_jax *)

\* np.zeros((rows, cols))
ZerosMat(rows, cols) == Array([i \in 0 .. rows - 1 |-> Zeros(cols)])

\* a + b for two matrices, for two vectors
MAdd(a, b) ==
    Array([i \in DOMAIN a |-> [j \in DOMAIN a[i] |-> Add(a[i][j], b[i][j])]])
VAdd(u, v) == Array([i \in DOMAIN u |-> Add(u[i], v[i])])

\* m.sum() of a matrix
MSum(m) == VSum([i \in DOMAIN m |-> VSum(m[i])])

\* m.T
Transpose(m) == Array([j \in DOMAIN m[0] |-> [i \in DOMAIN m |-> m[i][j]]])

\* the product without the factor trans_mat.T
KsiRaw_untransitioned(p, alpha_t, beta_t1, o) ==
    Array([a \in States(p) |-> [b \in States(p) |->
              Mul(Mul(alpha_t[b], beta_t1[b]), ObsCol(p, o)[b])]])

\* alpha_t * trans_mat.T * beta_t1 * obs_mat[:, o]: the three vectors
\* broadcast along the last axis of trans_mat.T
KsiRaw(p, alpha_t, beta_t1, o) ==
    Array([a \in States(p) |-> [b \in States(p) |->
              Mul(Mul(Mul(alpha_t[b], p.trans_mat[b][a]), beta_t1[b]),
                  ObsCol(p, o)[b])]])

\* ksi / (1 if ksi.sum() == 0 else ksi.sum())
KsiOver(ksi, normalizer) == Array([a \in DOMAIN ksi |-> DivBy(ksi[a], normalizer)])

KsiNormalized(ksi) == KsiOver(ksi, MSum(ksi))

\* the loop "for t in range(T - 1)" from step t on
RECURSIVE trans_counts_numpy_loop(_, _, _, _, _, _, _)
trans_counts_numpy_loop(p, alpha, beta, obs, T, t, AA) ==
    IF t >= T - 1 THEN AA
    ELSE trans_counts_numpy_loop(p, alpha, beta, obs, T, t + 1,
             MAdd(AA, Transpose(KsiNormalized(
                          KsiRaw(p, alpha[t], beta[t + 1], obs[t + 1])))))

compute_expected_trans_counts_numpy(p, alpha, beta, obs, T) ==
    trans_counts_numpy_loop(p, alpha, beta, obs, T, 0,
                            ZerosMat(NStates(p), NStates(p)))

\* count_ and the normalization, for one sequence: the sum over
\* t = t .. seq_len-2 of ksi_(alpha[:-1][t], beta[1:][t], obs[1:][t]),
\* each slice divided by its sum (1 when the sum is 0)
RECURSIVE trans_counts_jax_seq(_, _, _, _, _)
trans_counts_jax_seq(p, alpha, beta, obs, t) ==
    IF t >= Len0(obs) - 1 THEN ZerosMat(NStates(p), NStates(p))
    ELSE MAdd(KsiNormalized(Transpose(
                  KsiRaw(p, alpha[t], beta[t + 1], obs[t + 1]))),
              trans_counts_jax_seq(p, alpha, beta, obs, t + 1))

\* alphas, betas: one history per sequence of the batch
RECURSIVE trans_counts_jax_batch(_, _, _, _, _)
trans_counts_jax_batch(p, alphas, betas, obss, i) ==
    IF i >= Len0(obss) THEN ZerosMat(NStates(p), NStates(p))
    ELSE MAdd(trans_counts_jax_seq(p, alphas[i], betas[i], obss[i], 0),
              trans_counts_jax_batch(p, alphas, betas, obss, i + 1))

compute_expected_trans_counts_jax(p, alphas, betas, obss) ==
    trans_counts_jax_batch(p, alphas, betas, obss, 0)

-----------------------------------------------------------------------------
(* compute_expected_obs_counts_numpy / compute_expected_obs_counts_jax *)

\* g added to every column of BB
AddToColumn_every(BB, o, g) ==
    Array([s \in DOMAIN BB |-> [x \in DOMAIN BB[s] |-> Add(BB[s][x], g[s])]])

\* BB[:, o] += g
AddToColumn(BB, o, g) ==
    Array([s \in DOMAIN BB |-> [x \in DOMAIN BB[s] |->
              IF x = PyIdx(Len0(BB[s]), o) THEN Add(BB[s][x], g[s])
              ELSE BB[s][x]]])

\* the loop over t, up to (not including) step T, from step t on
RECURSIVE obs_counts_loop(_, _, _, _, _)
obs_counts_loop(gamma, obs, T, t, BB) ==
    IF t >= T THEN BB
    ELSE obs_counts_loop(gamma, obs, T, t + 1,
                         AddToColumn(BB, obs[t], gamma[t]))

compute_expected_obs_counts_numpy(gamma, obs, T, n_states, n_obs) ==
    obs_counts_loop(gamma, obs, T, 0, ZerosMat(n_states, n_obs))

\* the scan runs over every (obs[t], gamma[t]) pair of the padded sequence
compute_expected_obs_counts_jax(gamma, obs, n_states, n_obs) ==
    obs_counts_loop(gamma, obs, Len0(obs), 0, ZerosMat(n_states, n_obs))

-----------------------------------------------------------------------------
(* hmm_e_step_numpy / hmm_e_step_jax *)

Counts(tc, oc, ic, ll) ==
    [trans_counts |-> tc, obs_counts |-> oc, init_counts |-> ic,
     loglikelihood |-> ll]

\* the body of the loop over zip(observations, valid_lengths), for the
\* sequence obs of valid length valid_len; acc holds the four sums so far
\* the body with init_counts = gamma[0] in place of init_counts + gamma[0]
e_step_numpy_sums_last(p, obs, valid_len, acc, fb) ==
    Counts(MAdd(acc.trans_counts,
                compute_expected_trans_counts_numpy(
                    p, fb.alpha, fb.beta, obs, valid_len)),
           MAdd(acc.obs_counts,
                compute_expected_obs_counts_numpy(
                    fb.gamma, obs, valid_len, NStates(p), NObs(p))),
           fb.gamma[0],
           LogAdd(acc.loglikelihood, fb.ll))

e_step_numpy_sums(p, obs, valid_len, acc, fb) ==
    Counts(MAdd(acc.trans_counts,
                compute_expected_trans_counts_numpy(
                    p, fb.alpha, fb.beta, obs, valid_len)),
           MAdd(acc.obs_counts,
                compute_expected_obs_counts_numpy(
                    fb.gamma, obs, valid_len, NStates(p), NObs(p))),
           VAdd(acc.init_counts, fb.gamma[0]),
           LogAdd(acc.loglikelihood, fb.ll))

\* the sums are taken once acc and fb hold their values (see Array)
e_step_numpy_add(p, obs, valid_len, acc, fb) ==
    IF acc = acc /\ fb = fb THEN e_step_numpy_sums(p, obs, valid_len, acc, fb)
    ELSE acc

\* alpha, beta, gamma, ll = hmm_forwards_backwards_numpy(...), then the sums
e_step_numpy_body(p, obs, valid_len, acc) ==
    e_step_numpy_add(p, obs, valid_len, acc,
                     hmm_forwards_backwards_numpy(p, obs, valid_len))

\* the loop from sequence i on
RECURSIVE e_step_numpy_loop(_, _, _, _, _)
e_step_numpy_loop(p, obss, lens, i, acc) ==
    IF i >= Len0(obss) THEN acc
    ELSE e_step_numpy_loop(p, obss, lens, i + 1,
                           e_step_numpy_body(p, obss[i], lens[i], acc))

hmm_e_step_numpy(p, obss, lens) ==
    e_step_numpy_loop(p, obss, lens, 0,
        Counts(ZerosMat(NStates(p), NStates(p)), ZerosMat(NStates(p), NObs(p)),
               Zeros(NStates(p)), Log(One)))

\* jnp.sum(ms, axis=0) of the matrices ms[i .. ], of the vectors vs[i .. ],
\* of the logs ls[i .. ]
RECURSIVE MSumFrom(_, _, _)
MSumFrom(ms, i, zero) ==
    IF i >= Len0(ms) THEN zero ELSE MAdd(ms[i], MSumFrom(ms, i + 1, zero))

RECURSIVE VSumFrom(_, _, _)
VSumFrom(vs, i, zero) ==
    IF i >= Len0(vs) THEN zero ELSE VAdd(vs[i], VSumFrom(vs, i + 1, zero))

RECURSIVE LogSumFrom(_, _)
LogSumFrom(ls, i) ==
    IF i >= Len0(ls) THEN Log(One) ELSE LogAdd(ls[i], LogSumFrom(ls, i + 1))

\* the lines after the vmap of hmm_forwards_backwards_jax, whose results
\* per sequence are fb[i] = (alpha, beta, gamma, ll)
e_step_jax_counts(p, obss, fb) ==
    Counts(compute_expected_trans_counts_jax(p,
               Array([i \in DOMAIN obss |-> fb[i].alpha]),
               Array([i \in DOMAIN obss |-> fb[i].beta]), obss),
           MSumFrom(Array([i \in DOMAIN obss |->
                              compute_expected_obs_counts_jax(
                                  fb[i].gamma, obss[i], NStates(p), NObs(p))]),
                    0, ZerosMat(NStates(p), NObs(p))),
           VSumFrom(Array([i \in DOMAIN obss |-> fb[i].gamma[0]]), 0,
                    Zeros(NStates(p))),
           LogSumFrom(Array([i \in DOMAIN obss |-> fb[i].ll]), 0))

\* the sums are taken once fb holds its values (see Array)
e_step_jax_sums(p, obss, fb) ==
    IF fb = fb THEN e_step_jax_counts(p, obss, fb) ELSE fb

hmm_e_step_jax(p, obss, lens) ==
    e_step_jax_sums(p, obss,
        Array([i \in DOMAIN obss |->
                  hmm_forwards_backwards_jax(p, obss[i], lens[i])]))

-----------------------------------------------------------------------------
(* PriorsNumpy / PriorsJax, hmm_m_step_numpy / hmm_m_step_jax *)

\* the dataclass: its three attributes
Priors(tp, op_, ip) ==
    [trans_pseudo_counts |-> tp, obs_pseudo_counts |-> op_,
     init_pseudo_counts |-> ip]

\* priors=None
NoPriors == [is_none |-> TRUE]

IsNone(x) == "is_none" \in DOMAIN x

\* obj.name: the attribute, or AttributeError when obj has none of that name
HasAttr(obj, name) == name \in DOMAIN obj

Raised(exc) == [raised |-> exc]

IsRaised(x) == "raised" \in DOMAIN x

\* m / m.sum(axis=1, keepdims=True)
RowDivide(m) ==
    Array([i \in DOMAIN m |-> [j \in DOMAIN m[i] |-> Div(m[i][j], VSum(m[i]))]])

\* m / jnp.where(denom == 0, 1, denom), denom = m.sum(axis=1, keepdims=True)
RowDivideGuarded(m) == Array([i \in DOMAIN m |-> DivBySum(m[i])])

\* v / v.sum()
VecDivide(v) == Array([i \in DOMAIN v |-> Div(v[i], VSum(v))])

\* the block "if priors is not None": the counts with the pseudo-counts
\* added, or the exception the attribute lookups raise
AddPriors(counts, priors) ==
    IF IsNone(priors) THEN counts
    ELSE IF ~HasAttr(priors, "trans_pseudo_counts") THEN Raised("AttributeError")
    ELSE IF ~HasAttr(priors, "obs_pseudo_count") THEN Raised("AttributeError")
    ELSE IF ~HasAttr(priors, "init_pseudo_counts") THEN Raised("AttributeError")
    ELSE [trans_counts |-> MAdd(counts.trans_counts, priors.trans_pseudo_counts),
          obs_counts   |-> MAdd(counts.obs_counts, priors.obs_pseudo_count),
          init_counts  |-> VAdd(counts.init_counts, priors.init_pseudo_counts)]

\* A, B, pi and the return, unless the lines before raised
m_step_numpy_normalize(c) ==
    IF IsRaised(c) THEN c
    ELSE HMM(RowDivide(c.trans_counts), RowDivide(c.obs_counts),
             VecDivide(c.init_counts))

hmm_m_step_numpy(counts, priors) ==
    m_step_numpy_normalize(AddPriors(counts, priors))

\* A, B, pi and the return, unless the lines before raised
m_step_jax_normalize(c) ==
    IF IsRaised(c) THEN c
    ELSE HMM(RowDivideGuarded(c.trans_counts),
             RowDivideGuarded(c.obs_counts), VecDivide(c.init_counts))

hmm_m_step_jax(counts, priors) ==
    m_step_jax_normalize(AddPriors(counts, priors))

-----------------------------------------------------------------------------
(* The calls *)

\* the sequences of length T over the symbols of p
ObsSeqs(p, T) == [0 .. T - 1 -> Symbols(p)]

\* no call of hmm_em_numpy / hmm_em_jax is made
EmUnused ==
    /\ arg_n_hidden = <<>>
    /\ arg_n_obs = <<>>
    /\ init_params = <<>>
    /\ num_epochs = 0
    /\ epoch = 0
    /\ neg_loglikelihoods = <<>>
    /\ pc = "idle"

\* no call of fit is made
FitUnused ==
    /\ opt_globals = <<>>
    /\ fits = <<>>

\* no call of normalize_numpy / normalize is made on its own
NormUnused ==
    /\ norm_u = <<>>
    /\ norm_axis = 0
    /\ norm_eps = 0

Init ==
    /\ EmUnused
    /\ FitUnused
    /\ NormUnused
    /\ params \in Models
    /\ \E T \in 1 .. MaxSeqLen :
          /\ obs_seq \in ObsSeqs(params, T)
          /\ length \in 1 .. T
          /\ pad_seq \in {s \in ObsSeqs(params, T) :
                             \A t \in 0 .. length - 1 : s[t] = obs_seq[t]}
    /\ op = "none"
    /\ ret = <<>>
    /\ ret_pad = <<>>
    /\ observations = <<>>
    /\ pad_observations = <<>>
    /\ valid_lengths = <<>>
    /\ m_counts = <<>>
    /\ m_priors = NoPriors

Call(name, out, out_pad) ==
    /\ op = "none"
    /\ op' = name
    /\ ret' = out
    /\ ret_pad' = out_pad
    /\ UNCHANGED <<params, obs_seq, pad_seq, length, observations,
                   pad_observations, valid_lengths, m_counts, m_priors,
                   emVars, fitVars, normVars>>

ForwardNumpy ==
    Call("hmm_forwards_numpy",
         hmm_forwards_numpy(params, obs_seq, length),
         hmm_forwards_numpy(params, pad_seq, length))

ForwardJax ==
    Call("hmm_forwards_jax",
         hmm_forwards_jax(params, obs_seq, length),
         hmm_forwards_jax(params, pad_seq, length))

BackwardNumpy ==
    Call("hmm_backwards_numpy",
         hmm_backwards_numpy(params, obs_seq, length),
         hmm_backwards_numpy(params, pad_seq, length))

BackwardJax ==
    Call("hmm_backwards_jax",
         hmm_backwards_jax(params, obs_seq, length),
         hmm_backwards_jax(params, pad_seq, length))

ForwardBackwardNumpy ==
    Call("hmm_forwards_backwards_numpy",
         hmm_forwards_backwards_numpy(params, obs_seq, length),
         hmm_forwards_backwards_numpy(params, pad_seq, length))

ForwardBackwardJax ==
    Call("hmm_forwards_backwards_jax",
         hmm_forwards_backwards_jax(params, obs_seq, length),
         hmm_forwards_backwards_jax(params, pad_seq, length))

ViterbiNumpy ==
    Call("hmm_viterbi_numpy",
         hmm_viterbi_numpy(params, obs_seq),
         hmm_viterbi_numpy(params, pad_seq))

ViterbiJax ==
    Call("hmm_viterbi_jax",
         hmm_viterbi_jax(params, obs_seq, length),
         hmm_viterbi_jax(params, pad_seq, length))

Next ==
    \/ ForwardNumpy
    \/ ForwardJax
    \/ BackwardNumpy
    \/ BackwardJax
    \/ ForwardBackwardNumpy
    \/ ForwardBackwardJax
    \/ ViterbiNumpy
    \/ ViterbiJax

Spec == Init /\ [][Next]_vars

\* the sequence and the length fit the model: every symbol is one of the
\* model's and the length is one of the sequence's
Fits(p, obs, len) ==
    /\ \A t \in DOMAIN obs : obs[t] \in Symbols(p)
    /\ len \in 1 .. Len0(obs)

\* the calls whose arguments do not fit the model: a sequence with negative
\* symbols, a length of 0
InitUnchecked ==
    /\ EmUnused
    /\ FitUnused
    /\ NormUnused
    /\ params \in Models
    /\ \E T \in 1 .. MaxSeqLen :
          /\ obs_seq \in [0 .. T - 1 -> -1 .. NObs(params) - 1]
          /\ length \in 0 .. T
    /\ ~Fits(params, obs_seq, length)
    /\ pad_seq = obs_seq
    /\ op = "none"
    /\ ret = <<>>
    /\ ret_pad = <<>>
    /\ observations = <<>>
    /\ pad_observations = <<>>
    /\ valid_lengths = <<>>
    /\ m_counts = <<>>
    /\ m_priors = NoPriors

SpecUnchecked == InitUnchecked /\ [][Next]_vars

-----------------------------------------------------------------------------
(* One EM epoch on a batch: an E-step, then the M-step on its counts *)

\* the sequences of a batch: all of one padded length MaxSeqLen
BatchSeqs(p) == ObsSeqs(p, MaxSeqLen)

\* the batch is padded with symbol 0 beyond each valid length
ZeroPadded(obss, lens) ==
    \A i \in DOMAIN obss :
        \A t \in DOMAIN obss[i] : t >= lens[i] => obss[i][t] = 0

\* the batch with every symbol of the padding replaced by the next symbol
Repad(p, obss, lens) ==
    Array([i \in DOMAIN obss |-> [t \in DOMAIN obss[i] |->
              IF t < lens[i] THEN obss[i][t] ELSE (obss[i][t] + 1) % NObs(p)]])

BatchModels == {SkewModel, SparseModel}

InitBatch ==
    /\ EmUnused
    /\ FitUnused
    /\ NormUnused
    /\ params \in BatchModels
    /\ \E N \in 1 .. MaxBatch :
          /\ observations \in [0 .. N - 1 -> BatchSeqs(params)]
          /\ valid_lengths \in [0 .. N - 1 -> 1 .. MaxSeqLen]
          /\ ZeroPadded(observations, valid_lengths)
    /\ pad_observations = Repad(params, observations, valid_lengths)
    /\ op = "none"
    /\ ret = <<>>
    /\ ret_pad = <<>>
    /\ obs_seq = <<>>
    /\ pad_seq = <<>>
    /\ length = 0
    /\ m_counts = <<>>
    /\ m_priors = NoPriors

EStep(name, out, out_pad) ==
    /\ op = "none"
    /\ op' = name
    /\ ret' = out
    /\ ret_pad' = out_pad
    /\ UNCHANGED <<params, obs_seq, pad_seq, length, observations,
                   pad_observations, valid_lengths, m_counts, m_priors,
                   emVars, fitVars, normVars>>

EStepNumpy ==
    EStep("hmm_e_step_numpy",
          hmm_e_step_numpy(params, observations, valid_lengths),
          hmm_e_step_numpy(params, pad_observations, valid_lengths))

EStepJax ==
    EStep("hmm_e_step_jax",
          hmm_e_step_jax(params, observations, valid_lengths),
          hmm_e_step_jax(params, pad_observations, valid_lengths))

\* the pseudo-counts a caller may pass: none, all zero, all one
OnesMat(rows, cols) == Array([i \in 0 .. rows - 1 |-> Ones(cols)])

PriorsChoices(p) ==
    {NoPriors,
     Priors(ZerosMat(NStates(p), NStates(p)), ZerosMat(NStates(p), NObs(p)),
            Zeros(NStates(p))),
     Priors(OnesMat(NStates(p), NStates(p)), OnesMat(NStates(p), NObs(p)),
            Ones(NStates(p)))}

\* [trans_counts, obs_counts, init_counts]
CountsOf(e) ==
    [trans_counts |-> e.trans_counts, obs_counts |-> e.obs_counts,
     init_counts |-> e.init_counts]

MStep(after, name, out, pr) ==
    /\ op = after
    /\ op' = name
    /\ m_counts' = CountsOf(ret)
    /\ m_priors' = pr
    /\ ret' = out
    /\ UNCHANGED <<params, obs_seq, pad_seq, length, observations,
                   pad_observations, valid_lengths, ret_pad,
                   emVars, fitVars, normVars>>

MStepNumpy ==
    \E pr \in PriorsChoices(params) :
        MStep("hmm_e_step_numpy", "hmm_m_step_numpy",
              hmm_m_step_numpy(CountsOf(ret), pr), pr)

MStepJax ==
    \E pr \in PriorsChoices(params) :
        MStep("hmm_e_step_jax", "hmm_m_step_jax",
              hmm_m_step_jax(CountsOf(ret), pr), pr)

NextBatch ==
    \/ EStepNumpy
    \/ EStepJax
    \/ MStepNumpy
    \/ MStepJax

SpecBatch == InitBatch /\ [][NextBatch]_vars

\* the E-steps alone, on the batches of one and of two sequences of the
\* padded length EStepSeqLen
EStepSeqLen == 2

BatchSizes == {1, 2}

InitEStep ==
    /\ EmUnused
    /\ FitUnused
    /\ NormUnused
    /\ params \in BatchModels
    /\ \E N \in BatchSizes :
          /\ observations \in [0 .. N - 1 -> ObsSeqs(params, EStepSeqLen)]
          /\ valid_lengths \in [0 .. N - 1 -> 1 .. EStepSeqLen]
          /\ ZeroPadded(observations, valid_lengths)
    /\ pad_observations = Repad(params, observations, valid_lengths)
    /\ op = "none"
    /\ ret = <<>>
    /\ ret_pad = <<>>
    /\ obs_seq = <<>>
    /\ pad_seq = <<>>
    /\ length = 0
    /\ m_counts = <<>>
    /\ m_priors = NoPriors

NextEStep ==
    \/ EStepNumpy
    \/ EStepJax

SpecEStep == InitEStep /\ [][NextEStep]_vars

-----------------------------------------------------------------------------
(* init_random_params_numpy / init_random_params_jax, hmm_em_numpy / hmm_em_jax *)

\* most epochs of a call of hmm_em_*
MaxEpochs == 2

\* longest padded sequence of the batch of a call of hmm_em_*
EmSeqLen == 2

\* None
None == [is_none |-> TRUE]

\* -ll
Neg(ll) == [neg |-> ll]

\* list.append(x)
ListAppend(list, x) ==
    [i \in 0 .. Len0(list) |-> IF i < Len0(list) THEN list[i] ELSE x]

\* every entry 1/2
UniformModel ==
    HMM(Arr(<<Row(<<1, 1>>, 2), Row(<<1, 1>>, 2)>>),
        Arr(<<Row(<<1, 1>>, 2), Row(<<1, 1>>, 2)>>),
        Row(<<1, 1>>, 2))

\* uniform but for the transitions, which keep the state with probability 3/4
StickyModel ==
    HMM(Arr(<<Row(<<3, 1>>, 4), Row(<<1, 3>>, 4)>>),
        Arr(<<Row(<<1, 1>>, 2), Row(<<1, 1>>, 2)>>),
        Row(<<1, 1>>, 2))

\* the models softmax(randn(...)) may give: every entry strictly positive
RandomModels == {UniformModel, StickyModel}

\* a random initialization that never looks at the sizes
init_random_params_unsized(sizes, drawn) == drawn

\* np.random.randn(num_hidden, num_hidden), randn(num_hidden, num_obs) and
\* randn(num_hidden) raise TypeError when a size is None; drawn is the model
\* the random numbers give
init_random_params_numpy(sizes, drawn) ==
    IF sizes[0] = <<>> \/ sizes[1] = <<>> THEN Raised("TypeError") ELSE drawn

\* jax.random.normal(key, shape) raises TypeError when a size is None
init_random_params_jax(sizes, drawn) ==
    IF sizes[0] = <<>> \/ sizes[1] = <<>> THEN Raised("TypeError") ELSE drawn

\* the lines up to the epoch loop, for first = the value of init_params
\* after the block "if init_params is None", or what the try block raised
em_enter(name, first) ==
    /\ pc = "idle"
    /\ op = "none"
    /\ op' = name
    /\ IF IsRaised(first)
       THEN /\ pc' = "raised"
            /\ ret' = Raised("ValueError")
            /\ UNCHANGED <<init_params, params, neg_loglikelihoods>>
       ELSE /\ pc' = "loop"
            /\ init_params' = first
            /\ params' = first
            /\ neg_loglikelihoods' = <<>>
            /\ ret' = ret
    /\ UNCHANGED <<obs_seq, pad_seq, length, ret_pad, observations,
                   pad_observations, valid_lengths, m_counts, m_priors,
                   arg_n_hidden, arg_n_obs, num_epochs, epoch,
                   fitVars, normVars>>

EmNumpyStart ==
    \E drawn \in RandomModels :
        em_enter("hmm_em_numpy",
                 IF IsNone(init_params)
                 THEN init_random_params_numpy(
                          Arr(<<arg_n_hidden, arg_n_obs>>), drawn)
                 ELSE init_params)

EmJaxStart ==
    \E drawn \in RandomModels :
        em_enter("hmm_em_jax",
                 IF IsNone(init_params)
                 THEN init_random_params_jax(
                          Arr(<<arg_n_hidden, arg_n_obs>>), drawn)
                 ELSE init_params)

\* one iteration of the epoch loop, for the E-step result e and the M-step
\* result m: the trace is appended to before the M-step runs
em_numpy_epoch(e, m) ==
    /\ pc = "loop"
    /\ op = "hmm_em_numpy"
    /\ epoch < num_epochs
    /\ neg_loglikelihoods' = ListAppend(neg_loglikelihoods, Neg(e.loglikelihood))
    /\ m_counts' = CountsOf(e)
    /\ IF IsRaised(m)
       THEN /\ pc' = "raised"
            /\ ret' = m
            /\ UNCHANGED <<params, epoch>>
       ELSE /\ params' = m
            /\ epoch' = epoch + 1
            /\ UNCHANGED <<pc, ret>>
    /\ UNCHANGED <<obs_seq, pad_seq, length, op, ret_pad, observations,
                   pad_observations, valid_lengths, m_priors, arg_n_hidden,
                   arg_n_obs, init_params, num_epochs, fitVars, normVars>>

em_numpy_m_step(e) ==
    em_numpy_epoch(e, hmm_m_step_numpy(CountsOf(e), m_priors))

EmNumpyEpoch ==
    em_numpy_m_step(hmm_e_step_numpy(params, observations, valid_lengths))

\* return params, neg_loglikelihoods
em_return(name, at) ==
    /\ pc = at
    /\ op = name
    /\ epoch = num_epochs
    /\ pc' = "returned"
    /\ ret' = [params |-> params, neg_loglikelihoods |-> neg_loglikelihoods]
    /\ UNCHANGED <<params, obs_seq, pad_seq, length, op, ret_pad, observations,
                   pad_observations, valid_lengths, m_counts, m_priors,
                   arg_n_hidden, arg_n_obs, init_params, num_epochs, epoch,
                   neg_loglikelihoods, fitVars, normVars>>

EmNumpyReturn == em_return("hmm_em_numpy", "loop")

\* counts of the shapes of the model p
ZeroCounts(p) ==
    [trans_counts |-> ZerosMat(NStates(p), NStates(p)),
     obs_counts   |-> ZerosMat(NStates(p), NObs(p)),
     init_counts  |-> Zeros(NStates(p))]

\* jax.lax.scan(train_step, init_params, epochs) first runs train_step once
\* on abstract values, whatever the number of epochs: what hmm_m_step_jax
\* raises there, the call raises before any epoch is computed
em_jax_trace(m) ==
    /\ pc = "loop"
    /\ op = "hmm_em_jax"
    /\ IF IsRaised(m)
       THEN /\ pc' = "raised"
            /\ ret' = m
       ELSE /\ pc' = "scan"
            /\ ret' = ret
    /\ UNCHANGED <<params, obs_seq, pad_seq, length, op, ret_pad, observations,
                   pad_observations, valid_lengths, m_counts, m_priors,
                   arg_n_hidden, arg_n_obs, init_params, num_epochs, epoch,
                   neg_loglikelihoods, fitVars, normVars>>

EmJaxTrace == em_jax_trace(hmm_m_step_jax(ZeroCounts(params), m_priors))

\* train_step(params, epoch) and the stacking of its second result
em_jax_train_step(e, m) ==
    /\ pc = "scan"
    /\ op = "hmm_em_jax"
    /\ epoch < num_epochs
    /\ neg_loglikelihoods' = ListAppend(neg_loglikelihoods, Neg(e.loglikelihood))
    /\ m_counts' = CountsOf(e)
    /\ params' = m
    /\ epoch' = epoch + 1
    /\ UNCHANGED <<obs_seq, pad_seq, length, op, ret, ret_pad, observations,
                   pad_observations, valid_lengths, m_priors, arg_n_hidden,
                   arg_n_obs, init_params, num_epochs, pc, fitVars, normVars>>

em_jax_m_step(e) ==
    em_jax_train_step(e, hmm_m_step_jax(CountsOf(e), m_priors))

EmJaxEpoch ==
    em_jax_m_step(hmm_e_step_jax(params, observations, valid_lengths))

EmJaxReturn == em_return("hmm_em_jax", "scan")

\* state 1 is never left; state s emits symbol s only
ChainModel ==
    HMM(Arr(<<Row(<<1, 1>>, 2), Row(<<0, 1>>, 1)>>),
        Arr(<<Row(<<1, 0>>, 1), Row(<<0, 1>>, 1)>>),
        Row(<<1, 1>>, 2))

\* the models a caller may pass as init_params
EmModels == {SparseModel, UniformModel, ChainModel}

\* the priors a caller may pass
EmPriors == {NoPriors, Priors(OnesMat(2, 2), OnesMat(2, 2), Ones(2))}

InitEM ==
    /\ FitUnused
    /\ NormUnused
    /\ arg_n_hidden \in {<<>>, <<2>>}
    /\ arg_n_obs \in {<<>>, <<2>>}
    /\ init_params \in {None} \cup EmModels
    /\ num_epochs \in 0 .. MaxEpochs
    /\ m_priors \in EmPriors
    /\ observations \in [0 .. 0 -> [0 .. EmSeqLen - 1 -> 0 .. 1]]
    /\ valid_lengths \in [0 .. 0 -> 1 .. EmSeqLen]
    /\ ZeroPadded(observations, valid_lengths)
    /\ params = None
    /\ epoch = 0
    /\ neg_loglikelihoods = <<>>
    /\ pc = "idle"
    /\ op = "none"
    /\ ret = <<>>
    /\ ret_pad = <<>>
    /\ obs_seq = <<>>
    /\ pad_seq = <<>>
    /\ pad_observations = <<>>
    /\ length = 0
    /\ m_counts = <<>>

NextEM ==
    \/ EmNumpyStart
    \/ EmNumpyEpoch
    \/ EmNumpyReturn
    \/ EmJaxStart
    \/ EmJaxTrace
    \/ EmJaxEpoch
    \/ EmJaxReturn

SpecEM == InitEM /\ [][NextEM]_vars

-----------------------------------------------------------------------------
(* Masking of the padding (C1 - C3) *)

Padded == length < Len0(obs_seq) /\ pad_seq # obs_seq

\* C1: two calls of forward_backward that differ only in the symbols at
\* positions length .. T_max-1 return the same gamma[t] for every t < length.
C1_GammaMasked ==
    op \in {"hmm_forwards_backwards_numpy", "hmm_forwards_backwards_jax"}
        => \A t \in 0 .. length - 1 : ret.gamma[t] = ret_pad.gamma[t]

\* C2: two calls of forward that differ only in the symbols at positions
\* length .. T_max-1 return the same log-likelihood and the same alpha rows
\* 0 .. length-1.
C2_LoglikMasked ==
    op \in {"hmm_forwards_numpy", "hmm_forwards_jax"}
        => /\ ret.ll = ret_pad.ll
           /\ \A t \in 0 .. length - 1 : ret.alpha[t] = ret_pad.alpha[t]

\* both forward passes have run on a sequence whose padding was changed
C2_Witness ==
    /\ op = "hmm_forwards_jax"
    /\ Padded
    /\ length >= 2
    /\ ret.ll = hmm_forwards_numpy(params, pad_seq, length).ll
    /\ ~IsZero(ret.ll.exp)

\* C3: two calls of viterbi_decode(model, obs_seq, length) that differ only
\* in the symbols at positions length .. T_max-1 return the same decoded
\* states for positions 0 .. length-1.
C3_PathMasked ==
    op = "hmm_viterbi_jax"
        => \A t \in 0 .. length - 1 : ret[t] = ret_pad[t]

-----------------------------------------------------------------------------
(* Padding and the sufficient statistics (C4) *)

\* C4: the transition counts, emission counts, initial counts and total
\* log-likelihood returned by e_step are unchanged when the symbols at
\* positions >= valid_lengths[i] are changed.
C4_CountsMasked ==
    op \in {"hmm_e_step_numpy", "hmm_e_step_jax"} => ret = ret_pad

-----------------------------------------------------------------------------
(* The M-step (C5, C6) *)

MStepOps == {"hmm_m_step_numpy", "hmm_m_step_jax"}

\* a vector of non-negative finite numbers that sum to 1
IsDistribution(v) ==
    /\ \A i \in DOMAIN v : IsFinite(v[i])
    /\ VSum(v) = One

IsValidModel(m) ==
    /\ ~IsRaised(m)
    /\ \A i \in DOMAIN m.trans_mat : IsDistribution(m.trans_mat[i])
    /\ \A i \in DOMAIN m.obs_mat : IsDistribution(m.obs_mat[i])
    /\ IsDistribution(m.init_dist)

\* C5: after any M-step, for any accumulated counts and with or without
\* priors, every row of the returned trans_mat and obs_mat and the returned
\* init_dist is non-negative and sums to 1.
C5_RowStochastic == op \in MStepOps => IsValidModel(ret)

\* the counts with the three pseudo-counts added
WithPseudoCounts(counts, priors) ==
    [trans_counts |-> MAdd(counts.trans_counts, priors.trans_pseudo_counts),
     obs_counts   |-> MAdd(counts.obs_counts, priors.obs_pseudo_counts),
     init_counts  |-> VAdd(counts.init_counts, priors.init_pseudo_counts)]

\* C6: when priors are supplied to m_step the call succeeds and returns the
\* model obtained by adding the pseudo-counts to the accumulated counts and
\* then normalizing, which is the result of the call without priors on the
\* summed counts; with all-zero pseudo-counts that is the result of the call
\* without priors.
C6_PriorsApplied ==
    (op \in MStepOps /\ ~IsNone(m_priors))
        => /\ ~IsRaised(ret)
           /\ op = "hmm_m_step_numpy" =>
                  ret = hmm_m_step_numpy(WithPseudoCounts(m_counts, m_priors),
                                         NoPriors)
           /\ op = "hmm_m_step_jax" =>
                  ret = hmm_m_step_jax(WithPseudoCounts(m_counts, m_priors),
                                       NoPriors)

-----------------------------------------------------------------------------
(* The likelihood by enumeration of the state paths (C7, C8) *)

RECURSIVE Pow(_, _)
Pow(b, e) == IF e = 0 THEN 1 ELSE b * Pow(b, e - 1)

\* the k-th of the S^L state paths of length L: the digits of k in base S
PathOf(p, L, k) ==
    Array([t \in 0 .. L - 1 |-> (k \div Pow(NStates(p), t)) % NStates(p)])

\* init_dist[z0] obs_mat[z0][o0] prod_{u=1..t} trans_mat[z(u-1)][zu] obs_mat[zu][ou]
RECURSIVE PathProb(_, _, _, _)
PathProb(p, obs, z, t) ==
    IF t = 0 THEN Mul(p.init_dist[z[0]], p.obs_mat[z[0]][obs[0]])
    ELSE Mul(PathProb(p, obs, z, t - 1),
             Mul(p.trans_mat[z[t - 1]][z[t]], p.obs_mat[z[t]][obs[t]]))

\* the sum of the probabilities of the paths numbered below k that are in
\* state s at step t
RECURSIVE JointSum(_, _, _, _, _, _)
JointSum(p, obs, L, t, s, k) ==
    IF k = 0 THEN Zero
    ELSE Add(JointSum(p, obs, L, t, s, k - 1),
             IF PathOf(p, L, k - 1)[t] = s
             THEN PathProb(p, obs, PathOf(p, L, k - 1), L - 1)
             ELSE Zero)

\* p(obs[0..L-1], z_t = s | model)
Joint(p, obs, L, t, s) == JointSum(p, obs, L, t, s, Pow(NStates(p), L))

\* p(obs[0..L-1] | model)
Likelihood(p, obs, L) == VSum([s \in States(p) |-> Joint(p, obs, L, 0, s)])

ForwardOps == {"hmm_forwards_numpy", "hmm_forwards_jax"}

GoldenScenario ==
    /\ params = GoldenModel
    /\ obs_seq = Arr(<<0, 0, 1>>)
    /\ length = 3

\* C8: in the golden scenario forward returns a negative log-likelihood whose
\* scale factors have the product 0.120445 exactly, on both code paths.
C8_Golden ==
    (op \in ForwardOps /\ GoldenScenario)
        => /\ ret.ll.exp = Rat(120445, 1000000)
           /\ Less(ret.ll.exp, One)

\* the jax forward pass has run on the golden scenario
C8_Witness ==
    /\ op = "hmm_forwards_jax"
    /\ GoldenScenario
    /\ ret.ll = hmm_forwards_numpy(GoldenModel, Arr(<<0, 0, 1>>), 3).ll

-----------------------------------------------------------------------------
(* forward_backward against forward and against enumeration (C9, C10) *)

\* C9: the log-likelihood returned by forward_backward equals the one
\* returned by forward on the same arguments, and so does the alpha history.
C9_SameAsForward ==
    /\ op = "hmm_forwards_backwards_numpy" =>
           /\ ret.ll = hmm_forwards_numpy(params, obs_seq, length).ll
           /\ ret.alpha = hmm_forwards_numpy(params, obs_seq, length).alpha
    /\ op = "hmm_forwards_backwards_jax" =>
           /\ ret.ll = hmm_forwards_jax(params, obs_seq, length).ll
           /\ ret.alpha = hmm_forwards_jax(params, obs_seq, length).alpha

\* forward_backward has run with a valid length below the sequence length
C9_Witness ==
    /\ op = "hmm_forwards_backwards_numpy"
    /\ 1 < length
    /\ length < Len0(obs_seq)
    /\ ret.alpha[length] = Zeros(NStates(params))
    /\ ~IsZero(ret.ll.exp)

\* a model all of whose entries are strictly positive
StrictlyPositive(p) ==
    /\ \A i \in States(p) : \A j \in States(p) : ~IsZero(p.trans_mat[i][j])
    /\ \A i \in States(p) : \A o \in Symbols(p) : ~IsZero(p.obs_mat[i][o])
    /\ \A i \in States(p) : ~IsZero(p.init_dist[i])

\* P(z_t = s | obs[0..T-1]) for every state s
Smoothed(p, obs, T, t) ==
    Array([s \in States(p) |-> Div(Joint(p, obs, T, t, s), Likelihood(p, obs, T))])

ForwardBackwardOps ==
    {"hmm_forwards_backwards_numpy", "hmm_forwards_backwards_jax"}

\* C10: for an unpadded sequence and a strictly positive model every row
\* gamma[t] returned by forward_backward is the smoothed marginal computed by
\* enumeration of all state paths, and sums to 1.
C10_GammaIsSmoothed ==
    (/\ op \in ForwardBackwardOps
     /\ length = Len0(obs_seq)
     /\ StrictlyPositive(params))
        => \A t \in 0 .. length - 1 :
              /\ ret.gamma[t] = Smoothed(params, obs_seq, length, t)
              /\ VSum(ret.gamma[t]) = One

\* forward_backward has run on an unpadded sequence of the longest length
\* under an asymmetric strictly positive model
C10_Witness ==
    /\ op \in ForwardBackwardOps
    /\ params = SkewModel
    /\ length = MaxSeqLen
    /\ Len0(obs_seq) = MaxSeqLen
    /\ ret.gamma[0] = Smoothed(params, obs_seq, length, 0)
    /\ ret.gamma[0] # ret.alpha[0]

-----------------------------------------------------------------------------
(* viterbi_decode against enumeration (C11, C12) *)

ViterbiOps == {"hmm_viterbi_numpy", "hmm_viterbi_jax"}

\* z is a sequence of T states of p
IsStatePath(p, z, T) ==
    /\ DOMAIN z = 0 .. T - 1
    /\ \A k \in 0 .. T - 1 : z[k] \in States(p)

\* no state path of length T has a larger joint probability with obs than z
IsMostProbable(p, obs, z, T) ==
    \A k \in 0 .. Pow(NStates(p), T) - 1 :
        ~Less(PathProb(p, obs, z, T - 1),
              PathProb(p, obs, PathOf(p, T, k), T - 1))

\* C11: the path returned by viterbi_decode has one state of the model per
\* observation, and its joint probability with the observations is the
\* maximum over all S^T state paths.
C11_PathIsMostProbable ==
    op \in ViterbiOps =>
        /\ IsStatePath(params, ret, Len0(obs_seq))
        /\ IsMostProbable(params, obs_seq, ret, Len0(obs_seq))

\* the decoder has returned a path of the longest length that changes state
\* and has a positive probability
C11_Witness ==
    /\ op \in ViterbiOps
    /\ Len0(obs_seq) = MaxSeqLen
    /\ ret[0] # ret[MaxSeqLen - 1]
    /\ ~IsZero(PathProb(params, obs_seq, ret, MaxSeqLen - 1))
    /\ IsMostProbable(params, obs_seq, ret, MaxSeqLen)

\* init_dist[s] * obs_mat[s, o]
InitTimesObs(p, o, s) == Mul(p.init_dist[s], p.obs_mat[s][o])

\* argmax over the states s of init_dist[s] * obs_mat[s, o]: the first state
\* that no state exceeds
ArgMaxInitTimesObs(p, o) ==
    CHOOSE s \in States(p) :
        /\ \A j \in States(p) : ~Less(InitTimesObs(p, o, s), InitTimesObs(p, o, j))
        /\ \A j \in 0 .. s - 1 : Less(InitTimesObs(p, o, j), InitTimesObs(p, o, s))

\* C12: on a sequence of length 1 viterbi_decode returns the one-element
\* path [argmax_s init_dist[s] * obs_mat[s, obs[0]]].
C12_SingleObservation ==
    (op \in ViterbiOps /\ Len0(obs_seq) = 1)
        => ret = [k \in 0 .. 0 |-> ArgMaxInitTimesObs(params, obs_seq[0])]

\* the decoder has run on one observation for which two states tie for the
\* maximum, and has returned the first of them
C12_Witness ==
    /\ op \in ViterbiOps
    /\ Len0(obs_seq) = 1
    /\ params = TieModel
    /\ obs_seq[0] = 1
    /\ ret = [k \in 0 .. 0 |-> 1]
    /\ InitTimesObs(params, 1, 1) = InitTimesObs(params, 1, 2)

-----------------------------------------------------------------------------
(* The explicit-loop and the vectorized E-step (C17) *)

EStepOps == {"hmm_e_step_numpy", "hmm_e_step_jax"}

\* C17: on every batch with 1 <= valid_lengths[i] <= T_max the two E-steps
\* return the same transition counts, emission counts, initial counts and
\* total log-likelihood.
C17_EStepsAgree ==
    op \in EStepOps =>
        /\ ret = hmm_e_step_numpy(params, observations, valid_lengths)
        /\ ret = hmm_e_step_jax(params, observations, valid_lengths)

\* the same for the batches without padding
C17_UnpaddedEStepsAgree ==
    (op \in EStepOps /\ \A i \in DOMAIN valid_lengths :
                            valid_lengths[i] = MaxSeqLen) =>
        /\ ret = hmm_e_step_numpy(params, observations, valid_lengths)
        /\ ret = hmm_e_step_jax(params, observations, valid_lengths)

-----------------------------------------------------------------------------
(* fit_em (C13 - C15) *)

EmOps == {"hmm_em_numpy", "hmm_em_jax"}

\* a <= b for two negated logs, as the floats compare: false when either is
\* nan
NegLeq(a, b) ==
    /\ ~IsNaN(a.neg.exp)
    /\ ~IsNaN(b.neg.exp)
    /\ ~Less(a.neg.exp, b.neg.exp)

\* C13: the negative-log-likelihood trace returned by fit_em is
\* non-increasing: trace[k+1] <= trace[k] for every consecutive pair.
C13_TraceNonIncreasing ==
    (op \in EmOps /\ pc = "returned") =>
        \A k \in 0 .. Len0(ret.neg_loglikelihoods) - 2 :
            NegLeq(ret.neg_loglikelihoods[k + 1], ret.neg_loglikelihoods[k])

\* n_hidden or n_obs is missing
DimensionsMissing == arg_n_hidden = <<>> \/ arg_n_obs = <<>>

\* C14: a call of fit_em with no initial model and a dimension missing ends
\* at once in ValueError, with no E-step or M-step run, and returns nothing
\* afterwards; a call with an initial model enters the epoch loop with that
\* model whatever n_hidden and n_obs are.
C14_ConfigurationError ==
    [][/\ (pc = "idle" /\ IsNone(init_params) /\ DimensionsMissing)
            => /\ pc' = "raised"
               /\ ret' = Raised("ValueError")
               /\ epoch' = 0
               /\ neg_loglikelihoods' = <<>>
               /\ m_counts' = <<>>
       /\ (pc = "idle" /\ ~IsNone(init_params))
            => /\ pc' = "loop"
               /\ params' = init_params
       /\ pc = "raised" => (pc' = "raised" /\ ret' = ret)]_vars

\* the jax trainer has been called with n_hidden only and has raised
C14_Witness ==
    /\ op = "hmm_em_jax"
    /\ arg_n_hidden = <<2>>
    /\ arg_n_obs = <<>>
    /\ IsNone(init_params)
    /\ pc = "raised"
    /\ ret = Raised("ValueError")

\* the E-step and the M-step of the code path of the call
EStepOf(name, p) ==
    IF name = "hmm_em_numpy"
    THEN hmm_e_step_numpy(p, observations, valid_lengths)
    ELSE hmm_e_step_jax(p, observations, valid_lengths)

MStepOf(name, e) ==
    IF name = "hmm_em_numpy"
    THEN hmm_m_step_numpy(CountsOf(e), m_priors)
    ELSE hmm_m_step_jax(CountsOf(e), m_priors)

\* the model after k epochs from the model first: epoch k's M-step output
RECURSIVE ModelAfter(_, _, _)
ModelAfter(name, first, k) ==
    IF k = 0 THEN first
    ELSE MStepOf(name, EStepOf(name, ModelAfter(name, first, k - 1)))

\* the call has ended, and not in the configuration error
EmEnded == op \in EmOps /\ pc \in {"returned", "raised"}
               /\ ret # Raised("ValueError")

\* what C15 says a call that has ended has returned
EpochsInSequence ==
    /\ pc = "returned"
    /\ ret.params = ModelAfter(op, init_params, num_epochs)
    /\ Len0(ret.neg_loglikelihoods) = num_epochs
    /\ \A k \in 0 .. num_epochs - 1 :
          ret.neg_loglikelihoods[k] =
              Neg(EStepOf(op, ModelAfter(op, init_params, k)).loglikelihood)

\* C15: a call with num_epochs = n returns the output of the n-th M-step of
\* the chain E-step, M-step, E-step, ... started at the initial model (the
\* initial model when n = 0) and a trace of n entries, entry k the negated
\* log-likelihood of epoch k's E-step.
C15_EpochsInSequence == EmEnded => EpochsInSequence

\* the same for the calls without priors
C15_EpochsInSequenceWithoutPriors ==
    (EmEnded /\ IsNone(m_priors)) => EpochsInSequence

-----------------------------------------------------------------------------
(* Arguments that do not fit the model (C16) *)

BackwardOps == {"hmm_backwards_numpy", "hmm_backwards_jax"}

\* C16: forward, backward and forward_backward called with a symbol outside
\* 0..O-1 or a valid length outside 1..T_max end in an error: they return no
\* value.
C16_MisfitRejected ==
    (/\ op \in ForwardOps \cup BackwardOps \cup ForwardBackwardOps
     /\ ~Fits(params, obs_seq, length))
        => IsRaised(ret)

-----------------------------------------------------------------------------
(* Learning with a gradient optimizer: fit *)

\* Values of the trainer are kept as terms: what was computed from what, by
\* which optimizer's function.

MaxFitEpochs == 2
MaxMinibatches == 2

Runs == {1, 2}

\* an optimizer is the triple (opt_init, opt_update, get_params) of
\* jax.experimental.optimizers; the functions of the triple made with step
\* size k are named by k
Optimizers == {[step_size |-> 1], [step_size |-> 2]}

Triple(optimizer) ==
    [opt_init |-> optimizer, opt_update |-> optimizer,
     get_params |-> optimizer]

\* opt_init, opt_update, get_params = None, None, None
NoOptimizer == [opt_init |-> None, opt_update |-> None, get_params |-> None]

\* HMMJax of normal draws with the key rng_init
init_random_params == [term |-> "init_random_params"]

OptInit(f, p) == [term |-> "opt_init", opt |-> f, of |-> p]

GetParams(f, opt_state) == [term |-> "get_params", opt |-> f, of |-> opt_state]

OptUpdate(f, i, grads, opt_state) ==
    [term |-> "opt_update", opt |-> f, i |-> i, grads |-> grads,
     of |-> opt_state]

\* -hmm_loglikelihood_jax(softmax(params), batch, lens).mean()
loss_fn(p, batch) == [term |-> "loss_fn", params |-> p, batch |-> batch]

\* the gradient of loss_fn at p
grads_of(p, batch) == [term |-> "grads", params |-> p, batch |-> batch]

Mean(losses) == [term |-> "mean", of |-> losses]

Softmaxed(p) == [term |-> "softmax", of |-> p]

\* one key per epoch: split(rng_iter, num_epochs)
EpochKeys(E) == Array([e \in 0 .. E - 1 |-> e])

\* the batch reshuffled with the key and cut into M minibatches
hmm_sample_minibatches(key, M) ==
    Array([k \in 0 .. M - 1 |-> [key |-> key, index |-> k]])

update_at(g, i, opt_state, batch, p) ==
    [opt_state |-> OptUpdate(g.opt_update, i, grads_of(p, batch), opt_state),
     loss |-> loss_fn(p, batch)]

\* update reads the module's get_params and opt_update: g holds what they
\* are bound to when update is traced
update(g, i, opt_state, batch) ==
    update_at(g, i, opt_state, batch, GetParams(g.get_params, opt_state))

train_step_carry(carry, u) ==
    [opt_state |-> u.opt_state, losses |-> ListAppend(carry.losses, u.loss)]

\* next(itercount) runs once, when train_step is traced: every update of the
\* scan gets the count 0
train_step(g, carry, batch) ==
    train_step_carry(carry, update(g, 0, carry.opt_state, batch))

RECURSIVE train_scan(_, _, _, _)
train_scan(g, carry, batches, k) ==
    IF k >= Len0(batches) THEN carry
    ELSE train_scan(g, train_step(g, carry, batches[k]), batches, k + 1)

epoch_step_carry(carry, r) ==
    [opt_state |-> r.opt_state,
     losses |-> ListAppend(carry.losses, Mean(r.losses))]

\* returns opt_state, losses.mean()
epoch_step(g, carry, key, M) ==
    epoch_step_carry(carry,
        train_scan(g, [opt_state |-> carry.opt_state, losses |-> <<>>],
                   hmm_sample_minibatches(key, M), 0))

RECURSIVE epoch_scan(_, _, _, _, _)
epoch_scan(g, carry, epochs, M, e) ==
    IF e >= Len0(epochs) THEN carry
    ELSE epoch_scan(g, epoch_step(g, carry, epochs[e], M), epochs, M, e + 1)

\* what no line of fit touches
fitOthers == <<params, obs_seq, pad_seq, length, op, ret, ret_pad,
               observations, pad_observations, valid_lengths, m_counts,
               m_priors, emVars, normVars>>

NotCalled(optimizer, E, M) ==
    [pc |-> "idle", optimizer |-> optimizer, num_epochs |-> E,
     num_batches |-> M, params |-> None, opt_state |-> None,
     losses |-> <<>>, result |-> None]

\* global opt_init, opt_update, get_params; params = init_random_params(...);
\* opt_init, opt_update, get_params = optimizer
FitStart(r) ==
    /\ fits[r].pc = "idle"
    /\ opt_globals' = Triple(fits[r].optimizer)
    /\ fits' = [fits EXCEPT ![r].pc = "assigned",
                            ![r].params = init_random_params]
    /\ UNCHANGED fitOthers

\* opt_state = opt_init(params)
FitOptInit(r) ==
    /\ fits[r].pc = "assigned"
    /\ fits' = [fits EXCEPT ![r].pc = "initialised",
                   ![r].opt_state = OptInit(opt_globals.opt_init,
                                            fits[r].params)]
    /\ UNCHANGED <<opt_globals, fitOthers>>

fit_scanned(run, carry) ==
    [run EXCEPT !.pc = "scanned", !.opt_state = carry.opt_state,
                !.losses = carry.losses]

\* opt_state, losses = jax.lax.scan(epoch_step, opt_state, epochs);
\* losses = losses.flatten()
FitScan(r) ==
    /\ fits[r].pc = "initialised"
    /\ fits' = [fits EXCEPT ![r] =
           fit_scanned(@, epoch_scan(opt_globals,
                          [opt_state |-> @.opt_state, losses |-> <<>>],
                          EpochKeys(@.num_epochs), @.num_batches, 0))]
    /\ UNCHANGED <<opt_globals, fitOthers>>

\* params = get_params(opt_state); return softmax of params, losses
FitReturn(r) ==
    /\ fits[r].pc = "scanned"
    /\ fits' = [fits EXCEPT ![r].pc = "returned",
           ![r].result = Softmaxed(GetParams(opt_globals.get_params,
                                             fits[r].opt_state))]
    /\ UNCHANGED <<opt_globals, fitOthers>>

\* two calls of fit with different optimizers, in threads of one process
InitFit ==
    /\ EmUnused
    /\ NormUnused
    /\ opt_globals = NoOptimizer
    /\ \E o1, o2 \in Optimizers :
       \E E1, E2 \in 0 .. MaxFitEpochs :
       \E M1, M2 \in 1 .. MaxMinibatches :
          /\ o1 # o2
          /\ fits = [r \in Runs |-> IF r = 1 THEN NotCalled(o1, E1, M1)
                                              ELSE NotCalled(o2, E2, M2)]
    /\ params = <<>>
    /\ obs_seq = <<>>
    /\ pad_seq = <<>>
    /\ length = 0
    /\ op = "none"
    /\ ret = <<>>
    /\ ret_pad = <<>>
    /\ observations = <<>>
    /\ pad_observations = <<>>
    /\ valid_lengths = <<>>
    /\ m_counts = <<>>
    /\ m_priors = NoPriors

NextFit ==
    \/ \E r \in Runs : FitStart(r)
    \/ \E r \in Runs : FitOptInit(r)
    \/ \E r \in Runs : FitScan(r)
    \/ \E r \in Runs : FitReturn(r)

SpecFit == InitFit /\ [][NextFit]_vars

-----------------------------------------------------------------------------
(* The gradient trainer (C18, C19) *)

RECURSIVE UpdatedOn(_)
\* the minibatches of the updates that made an optimizer state, first to last
UpdatedOn(opt_state) ==
    IF opt_state.term = "opt_update"
    THEN ListAppend(UpdatedOn(opt_state.of), opt_state.grads.batch)
    ELSE <<>>

\* the minibatches of E epochs of M minibatches, in epoch order
InEpochOrder(E, M) ==
    Array([n \in 0 .. E * M - 1 |-> [key |-> n \div M, index |-> n % M]])

FitScanned(r) == fits[r].pc \in {"scanned", "returned"}

OneUpdatePerMinibatch(r) ==
    UpdatedOn(fits[r].opt_state)
        = InEpochOrder(fits[r].num_epochs, fits[r].num_batches)

\* C18: a run of fit over E epochs of M minibatches makes one update per
\* minibatch, E*M updates in epoch order, and its loss trace has one entry
\* per update, E*M entries.
C18_LossPerMinibatch ==
    \A r \in Runs :
        FitScanned(r) =>
            /\ OneUpdatePerMinibatch(r)
            /\ Len0(fits[r].losses) = fits[r].num_epochs * fits[r].num_batches

\* the updates are as C18 says, and the trace has one entry per epoch
C18_LossPerEpoch ==
    \A r \in Runs :
        FitScanned(r) =>
            /\ OneUpdatePerMinibatch(r)
            /\ Len0(fits[r].losses) = fits[r].num_epochs

\* what fit returns when no other call of fit runs with it
FitAlone(optimizer, E, M) ==
    LET first == [opt_state |-> OptInit(optimizer, init_random_params),
                  losses |-> <<>>]
        last == epoch_scan(Triple(optimizer), first, EpochKeys(E), M, 0)
    IN  [result |-> Softmaxed(GetParams(optimizer, last.opt_state)),
         losses |-> last.losses]

\* C19: of two calls of fit with different optimizers that run interleaved,
\* each returns what it returns when run alone.
C19_RunsIndependent ==
    \A r \in Runs :
        fits[r].pc = "returned" =>
            [result |-> fits[r].result, losses |-> fits[r].losses]
                = FitAlone(fits[r].optimizer, fits[r].num_epochs,
                           fits[r].num_batches)

\* a call of fit that returned before the other call was made returns what
\* it returns alone
C19_FirstRunIndependent ==
    \A r \in Runs :
        (/\ fits[r].pc = "returned"
         /\ \A q \in Runs \ {r} : fits[q].pc = "idle")
            => [result |-> fits[r].result, losses |-> fits[r].losses]
                   = FitAlone(fits[r].optimizer, fits[r].num_epochs,
                              fits[r].num_batches)

-----------------------------------------------------------------------------
(* normalize_numpy / normalize on an array of one or two axes *)

\* eps = 1 / root^3
EpsOf(root) == [n |-> 1, d |-> root * root * root]

\* x < eps for a finite x = n/d
BelowEpsOf(x, root) ==
    /\ IsFinite(x)
    /\ x.n < CeilDiv(CeilDiv(CeilDiv(x.d, root), root), root)

\* np.where(u == 0, 0, np.where(u < eps, eps, u)) at one entry
ClampOf(x, root) ==
    IF IsZero(x) THEN Zero
    ELSE IF BelowEpsOf(x, root) THEN EpsOf(root)
    ELSE x

Clamp1(row, root) == Array([j \in DOMAIN row |-> ClampOf(row[j], root)])

Clamp2(u, root) == Array([i \in DOMAIN u |-> Clamp1(u[i], root)])

\* np.where(c == 0, 1, c) at one entry
GuardOf(c) == IF IsZero(c) THEN One ELSE c

Column(u, j) == Array([i \in DOMAIN u |-> u[i][j]])

\* np.where(c == 0, 1, c) of u.sum(axis=axis) for u of two axes: one sum per
\* column for axis 0, one per row for axis 1, as an array of one axis
GuardedSums(u, axis) ==
    IF axis = 0
    THEN Array([j \in DOMAIN u[0] |-> GuardOf(VSum(Column(u, j)))])
    ELSE Array([i \in DOMAIN u |-> GuardOf(VSum(u[i]))])

\* u / c for u of shape (R, C) and c of shape (L,): the shapes are matched
\* from the last axis, an axis of size 1 is stretched
Broadcast(u, c) ==
    IF Len0(u[0]) = Len0(c)
    THEN [v |-> Array([i \in DOMAIN u |->
                          [j \in DOMAIN u[i] |-> Div(u[i][j], c[j])]]),
          c |-> c]
    ELSE IF Len0(c) = 1
    THEN [v |-> Array([i \in DOMAIN u |->
                          [j \in DOMAIN u[i] |-> Div(u[i][j], c[0])]]),
          c |-> c]
    ELSE IF Len0(u[0]) = 1
    THEN [v |-> Array([i \in DOMAIN u |->
                          [j \in DOMAIN c |-> Div(u[i][0], c[j])]]),
          c |-> c]
    ELSE Raised("ValueError")

normalize_divide(u, c) == [v |-> Array([j \in DOMAIN u |-> Div(u[j], c)]),
                           c |-> c]

\* normalize_numpy(u, axis, eps) and normalize(u, axis, eps): the same lines
\* on np and on jnp
normalize(u, axis, root) ==
    IF u.ndim = 1
    THEN normalize_divide(Clamp1(u.a, root), GuardOf(VSum(Clamp1(u.a, root))))
    ELSE Broadcast(Clamp2(u.a, root), GuardedSums(Clamp2(u.a, root), axis))

NormalizeOps == {"normalize_numpy", "normalize"}

NormalizeCall(name) ==
    /\ op = "none"
    /\ op' = name
    /\ ret' = normalize(norm_u, norm_axis, norm_eps)
    /\ UNCHANGED <<params, obs_seq, pad_seq, length, ret_pad, observations,
                   pad_observations, valid_lengths, m_counts, m_priors,
                   emVars, fitVars, normVars>>

NormalizeNumpy == NormalizeCall("normalize_numpy")

NormalizeJax == NormalizeCall("normalize")

\* the entries of the arrays: zero, a value below both eps, values above
NormEntries == {Zero, Rat(1, 16), One, Rat(3, 1)}

\* eps = 1e-15, the default, and eps = 1/8
EpsRoots == {EpsRoot, 2}

NormShapes == {<<1, 2>>, <<2, 1>>, <<2, 2>>, <<3, 2>>}

\* the arrays of one axis
NormVectors == UNION {[0 .. n - 1 -> NormEntries] : n \in 1 .. 2}

\* the arrays of two axes
NormMatrices ==
    UNION {[0 .. sh[1] - 1 -> [0 .. sh[2] - 1 -> NormEntries]] :
              sh \in NormShapes}

InitNormalize ==
    /\ EmUnused
    /\ FitUnused
    /\ \/ \E a \in NormVectors : norm_u = [ndim |-> 1, a |-> a]
       \/ \E a \in NormMatrices : norm_u = [ndim |-> 2, a |-> a]
    /\ norm_axis \in 0 .. norm_u.ndim - 1
    /\ norm_eps \in EpsRoots
    /\ params = <<>>
    /\ obs_seq = <<>>
    /\ pad_seq = <<>>
    /\ length = 0
    /\ op = "none"
    /\ ret = <<>>
    /\ ret_pad = <<>>
    /\ observations = <<>>
    /\ pad_observations = <<>>
    /\ valid_lengths = <<>>
    /\ m_counts = <<>>
    /\ m_priors = NoPriors

NextNormalize ==
    \/ NormalizeNumpy
    \/ NormalizeJax

SpecNormalize == InitNormalize /\ [][NextNormalize]_vars

-----------------------------------------------------------------------------
(* The contract of normalize (C20) *)

\* an entry in the open interval (0, eps) raised to eps, an exact zero kept
Raise(x, root) ==
    IF x.n > 0 /\ BelowEpsOf(x, root) THEN EpsOf(root) ELSE x

\* the index pairs of u that lie along the axis through the entry (i, j)
Along(u, axis, i, j) ==
    IF axis = 0 THEN {<<k, j>> : k \in DOMAIN u}
    ELSE {<<i, k>> : k \in DOMAIN u[i]}

RECURSIVE SumOver(_, _, _)
\* the sum of the raised entries of u at the index pairs of cells
SumOver(u, root, cells) ==
    IF cells = {} THEN Zero
    ELSE LET cell == CHOOSE x \in cells : TRUE
         IN  Add(Raise(u[cell[1]][cell[2]], root),
                 SumOver(u, root, cells \ {cell}))

\* c at the entry (i, j): the sum along the axis, a zero sum replaced by 1
NormalizerAt(u, axis, root, i, j) ==
    IF IsZero(SumOver(u, root, Along(u, axis, i, j))) THEN One
    ELSE SumOver(u, root, Along(u, axis, i, j))

\* an array of one axis as a matrix of one column, its axis 0 kept
AsMatrix(u) ==
    IF u.ndim = 2 THEN u.a ELSE [i \in DOMAIN u.a |-> [j \in {0} |-> u.a[i]]]

AsColumn(v, ndim) ==
    IF ndim = 2 THEN v ELSE [i \in DOMAIN v |-> [j \in {0} |-> v[i]]]

\* v = u'/c with c the sum of u' along the axis
DividedAlongAxis(v, u, axis, root) ==
    /\ DOMAIN v = DOMAIN u
    /\ \A i \in DOMAIN u :
          /\ DOMAIN v[i] = DOMAIN u[i]
          /\ \A j \in DOMAIN u[i] :
                v[i][j] = Div(Raise(u[i][j], root),
                              NormalizerAt(u, axis, root, i, j))

\* c holds the sums along the axis, a zero sum replaced by 1
SumsAlongAxis(c, u, axis, root, ndim) ==
    IF ndim = 1 THEN c = NormalizerAt(u, 0, root, 0, 0)
    ELSE IF axis = 0
    THEN /\ DOMAIN c = DOMAIN u[0]
         /\ \A j \in DOMAIN c : c[j] = NormalizerAt(u, 0, root, 0, j)
    ELSE /\ DOMAIN c = DOMAIN u
         /\ \A i \in DOMAIN c : c[i] = NormalizerAt(u, 1, root, i, 0)

Contract ==
    /\ ~IsRaised(ret)
    /\ SumsAlongAxis(ret.c, AsMatrix(norm_u), norm_axis, norm_eps, norm_u.ndim)
    /\ DividedAlongAxis(AsColumn(ret.v, norm_u.ndim), AsMatrix(norm_u),
                        norm_axis, norm_eps)

\* C20: normalize(u, axis) returns (v, c) with c the sum along the axis of u
\* with its entries in (0, eps) raised to eps, a zero sum replaced by 1, and
\* v = u'/c: v sums to 1 along the axis where u has a positive entry and is
\* zero with c = 1 where u is all zero.
C20_NormalizedAlongAxis == op \in NormalizeOps => Contract

\* the same for the arrays of one axis, and along axis 0
C20_NormalizedAlongFirstAxis ==
    (op \in NormalizeOps /\ norm_axis = 0) => Contract

-----------------------------------------------------------------------------
(* The alignment of beta with alpha (C21) *)

\* a row divided by its sum, a row that sums to zero left as it is
NormalizedRow(row) ==
    IF IsZero(VSum(row)) THEN row
    ELSE Array([i \in DOMAIN row |-> Div(row[i], VSum(row))])

\* gamma[t] is alpha[t] times the row of beta at the python index
\* t + shift, normalized, and the row for the last valid step is all ones
AlignedAt(shift) ==
    /\ \A t \in 0 .. length - 1 :
          ret.gamma[t] =
              NormalizedRow(VMul(ret.alpha[t],
                                 ret.beta[PyIdx(Len0(obs_seq), t + shift)]))
    /\ ret.beta[PyIdx(Len0(obs_seq), length - 1 + shift)]
           = Ones(NStates(params))

-----------------------------------------------------------------------------
(* The backward recursion (C22) *)

\* the row of the beta history ret that holds the message of time step t
MessageRow(t) == ret[t + Len0(obs_seq) - length]

BackwardRecursion ==
    /\ MessageRow(length - 1) = Ones(NStates(params))
    /\ \A t \in 0 .. length - 2 :
          MessageRow(t) =
              NormalizedRow(BackStep(params, MessageRow(t + 1), obs_seq[t + 1]))
    /\ \A r \in 0 .. Len0(obs_seq) - length - 1 :
          ret[r] = Zeros(NStates(params))

\* C22: the backward message of time L-1 is all ones, the message of time
\* t < L-1 is normalize(trans_mat . (message[t+1] * obs_mat[:, obs[t+1]]))
\* with the valid observation obs[t+1], and the rows of the beta history
\* that belong to no valid step are zero.
C22_BackwardRecursion == op \in BackwardOps => BackwardRecursion

\* the same for the sequences without padding
C22_UnpaddedBackwardRecursion ==
    (op \in BackwardOps /\ length = Len0(obs_seq)) => BackwardRecursion

-----------------------------------------------------------------------------
(* The expected transition counts (C23) *)

\* what forward_backward of the code path of the E-step name returns
ForwardBackwardOf(name, p, obs, len) ==
    IF name = "hmm_e_step_numpy" THEN hmm_forwards_backwards_numpy(p, obs, len)
    ELSE hmm_forwards_backwards_jax(p, obs, len)

\* a matrix divided by the sum of its entries, left as it is when the sum
\* is zero
NormalizedSlice(m, total) ==
    IF IsZero(total) THEN m
    ELSE Array([j \in DOMAIN m |-> [k \in DOMAIN m[j] |-> Div(m[j][k], total)]])

\* ksi_t[j,k] ~ alpha[t][j] * a_jk * b_k(o) * beta[t+1][k]
KsiByDestination(p, alpha_t, beta_t1, o) ==
    Array([j \in States(p) |-> [k \in States(p) |->
              Mul(Mul(Mul(alpha_t[j], p.trans_mat[j][k]), p.obs_mat[k][o]),
                  beta_t1[k])]])

\* ksi_t[j,k] ~ alpha[t][j] * a_jk * b_j(o) * beta[t+1][j]
KsiBySource(p, alpha_t, beta_t1, o) ==
    Array([j \in States(p) |-> [k \in States(p) |->
              Mul(Mul(Mul(alpha_t[j], p.trans_mat[j][k]), p.obs_mat[j][o]),
                  beta_t1[j])]])

KsiSlice(p, fb, obs, t, by_destination) ==
    IF by_destination
    THEN KsiByDestination(p, fb.alpha[t], fb.beta[t + 1], obs[t + 1])
    ELSE KsiBySource(p, fb.alpha[t], fb.beta[t + 1], obs[t + 1])

NormalizedKsi(m) == NormalizedSlice(m, MSum(m))

RECURSIVE KsiSum(_, _, _, _, _, _)
\* the sum over t .. T-2 of the normalized slices of one sequence
KsiSum(p, fb, obs, T, t, by_destination) ==
    IF t >= T - 1 THEN ZerosMat(NStates(p), NStates(p))
    ELSE MAdd(NormalizedKsi(KsiSlice(p, fb, obs, t, by_destination)),
              KsiSum(p, fb, obs, T, t + 1, by_destination))

RECURSIVE KsiBatchSum(_, _, _)
\* the sum over the sequences i .. N-1 of the batch, for the E-step name
KsiBatchSum(name, i, by_destination) ==
    IF i >= Len0(observations) THEN ZerosMat(NStates(params), NStates(params))
    ELSE MAdd(KsiSum(params,
                     ForwardBackwardOf(name, params, observations[i],
                                       valid_lengths[i]),
                     observations[i], valid_lengths[i], 0, by_destination),
              KsiBatchSum(name, i + 1, by_destination))

Unpadded == \A i \in DOMAIN observations :
                valid_lengths[i] = Len0(observations[i])

\* C23: the transition counts are the sum over t in 0..T-2 (and over the
\* batch) of ksi_t, with ksi_t[j,k] proportional to
\* alpha[t][j] * a_jk * b_k(obs[t+1]) * beta[t+1][k] and normalized over all
\* (j,k): emission and backward factors are those of the destination k.
C23_KsiByDestination ==
    op \in EStepOps => ret.trans_counts = KsiBatchSum(op, 0, TRUE)

\* what is summed on a batch without padding: the emission and backward
\* factors of the source state j
C23_KsiBySource ==
    (op \in EStepOps /\ Unpadded)
        => ret.trans_counts = KsiBatchSum(op, 0, FALSE)

-----------------------------------------------------------------------------
(* The mass of the transition counts (C24) *)

RECURSIVE StepsFrom(_)
\* the sum over the sequences i .. N-1 of valid_lengths[i] - 1
StepsFrom(i) ==
    IF i >= Len0(valid_lengths) THEN 0
    ELSE valid_lengths[i] - 1 + StepsFrom(i + 1)

\* C24: for a strictly positive model every slice ksi[t], t in 0..L-2, sums
\* to 1 before it is added, so the transition counts of e_step sum to the
\* sum over the sequences of valid_lengths[i] - 1, padded sequences included.
C24_UnitSlices ==
    (op \in EStepOps /\ StrictlyPositive(params))
        => MSum(ret.trans_counts) = Rat(StepsFrom(0), 1)

\* the same for the batches without padding
C24_UnpaddedUnitSlices ==
    (op \in EStepOps /\ StrictlyPositive(params) /\ Unpadded)
        => MSum(ret.trans_counts) = Rat(StepsFrom(0), 1)

-----------------------------------------------------------------------------
(* The expected emission counts (C25) *)

RECURSIVE GammaSumSeq(_, _, _, _, _, _)
\* the sum of gamma[t][s] over the steps t .. len-1 at which obs[t] = o
GammaSumSeq(gamma, obs, len, t, s, o) ==
    IF t >= len THEN Zero
    ELSE Add(IF obs[t] = o THEN gamma[t][s] ELSE Zero,
             GammaSumSeq(gamma, obs, len, t + 1, s, o))

RECURSIVE GammaSum(_, _, _, _)
\* the same summed over the sequences i .. N-1 of the batch
GammaSum(name, i, s, o) ==
    IF i >= Len0(observations) THEN Zero
    ELSE Add(GammaSumSeq(ForwardBackwardOf(name, params, observations[i],
                                           valid_lengths[i]).gamma,
                         observations[i], valid_lengths[i], 0, s, o),
             GammaSum(name, i + 1, s, o))

RECURSIVE LengthsFrom(_)
\* the sum of the valid lengths of the sequences i .. N-1
LengthsFrom(i) ==
    IF i >= Len0(valid_lengths) THEN 0
    ELSE valid_lengths[i] + LengthsFrom(i + 1)

\* C25: obs_counts[s, o] of e_step is the sum, over the sequences i and the
\* valid steps t < valid_lengths[i] with obs_i[t] = o, of gamma_i[t][s];
\* padded steps add nothing, and for a strictly positive model the emission
\* counts sum to the sum of the valid lengths.
C25_EmissionCounts ==
    op \in EStepOps =>
        /\ \A s \in States(params) : \A o \in Symbols(params) :
              ret.obs_counts[s][o] = GammaSum(op, 0, s, o)
        /\ StrictlyPositive(params)
              => MSum(ret.obs_counts) = Rat(LengthsFrom(0), 1)

\* an E-step has run under a strictly positive model on a batch with a
\* padded and an unpadded sequence, and both symbols were counted
C25_Witness ==
    /\ op \in EStepOps
    /\ StrictlyPositive(params)
    /\ \E i \in DOMAIN observations :
          valid_lengths[i] < Len0(observations[i])
    /\ \E i \in DOMAIN observations :
          /\ valid_lengths[i] = Len0(observations[i])
          /\ observations[i][valid_lengths[i] - 1] = 1
    /\ MSum(ret.obs_counts) = Rat(LengthsFrom(0), 1)
    /\ \A o \in Symbols(params) : ~IsZero(ret.obs_counts[0][o])

-----------------------------------------------------------------------------
\* every entry of the vector, of the matrix is a finite number
VFinite(v) == \A i \in DOMAIN v : IsFinite(v[i])

MFinite(m) == \A i \in DOMAIN m : VFinite(m[i])

\* the M-step returned a model and every entry of it is finite
FiniteModel(m) ==
    /\ MFinite(m.trans_mat)
    /\ MFinite(m.obs_mat)
    /\ VFinite(m.init_dist)

\* C26: a sum of zero is replaced by 1 before the division, so every count
\* the E-steps return is finite, and every entry of the model an M-step
\* returns is finite (no nan, no inf), also when a row of the counts, or
\* init_counts, is all zero
C26_NoNaN ==
    /\ op \in EStepOps =>
          /\ MFinite(ret.trans_counts)
          /\ MFinite(ret.obs_counts)
          /\ VFinite(ret.init_counts)
    /\ (op \in MStepOps /\ ~IsRaised(ret)) => FiniteModel(ret)

\* the part of C26 that the jax M-step keeps: the rows of trans_mat and
\* obs_mat it returns are finite
C26_JaxRowsFinite ==
    (op = "hmm_m_step_jax" /\ ~IsRaised(ret)) =>
        MFinite(ret.trans_mat) /\ MFinite(ret.obs_mat)

\* C26 for the jax M-step, init_dist included
C26_JaxFinite ==
    (op = "hmm_m_step_jax" /\ ~IsRaised(ret)) => FiniteModel(ret)

\* C26 for the E-steps alone
C26_EStepFinite ==
    op \in EStepOps =>
        /\ MFinite(ret.trans_counts)
        /\ MFinite(ret.obs_counts)
        /\ VFinite(ret.init_counts)

-----------------------------------------------------------------------------
\* the E-step of the code path name
EStepOn(name, p, obss, lens) ==
    IF name = "hmm_e_step_numpy" THEN hmm_e_step_numpy(p, obss, lens)
    ELSE hmm_e_step_jax(p, obss, lens)

\* the batch that holds sequence i alone
Single(a, i) == Array([k \in 0 .. 0 |-> a[i]])

\* the sum of the results r and q of two E-steps
CountsAdd(r, q) ==
    Counts(MAdd(r.trans_counts, q.trans_counts),
           MAdd(r.obs_counts, q.obs_counts),
           VAdd(r.init_counts, q.init_counts),
           LogAdd(r.loglikelihood, q.loglikelihood))

\* the sum of the E-steps on the single sequences i, i + 1, ... of the batch
RECURSIVE SinglesFrom(_, _)
SinglesFrom(name, i) ==
    IF i = Len0(observations) - 1
    THEN EStepOn(name, params, Single(observations, i),
                 Single(valid_lengths, i))
    ELSE CountsAdd(EStepOn(name, params, Single(observations, i),
                           Single(valid_lengths, i)),
                   SinglesFrom(name, i + 1))

\* the E-step on the batch in the order pi
Permuted(name, pi) ==
    EStepOn(name, params,
            Array([i \in DOMAIN observations |-> observations[pi[i]]]),
            Array([i \in DOMAIN observations |-> valid_lengths[pi[i]]]))

\* C27: the E-step on the batch in any other order of its sequences (each
\* with its valid length) returns the same transition counts, emission
\* counts, initial counts and log-likelihood, and these are the sums of what
\* the E-step returns on each sequence alone
C27_OrderIndependent ==
    op \in EStepOps =>
        /\ \A pi \in Permutations(DOMAIN observations) :
              Permuted(op, pi) = ret
        /\ SinglesFrom(op, 0) = ret

\* a batch of two sequences that differ, whose E-steps alone differ from
\* each other, has been reduced
C27_Witness ==
    /\ op \in EStepOps
    /\ Len0(observations) = 2
    /\ observations[0] # observations[1]
    /\ valid_lengths[0] # valid_lengths[1]
    /\ EStepOn(op, params, Single(observations, 0), Single(valid_lengths, 0))
          # EStepOn(op, params, Single(observations, 1),
                    Single(valid_lengths, 1))
    /\ ret = SinglesFrom(op, 0)
    /\ ret = Permuted(op, [i \in DOMAIN observations |-> 1 - i])

-----------------------------------------------------------------------------
\* the first index of v that none exceeds
LowestBest(v) ==
    CHOOSE i \in DOMAIN v :
        /\ \A k \in DOMAIN v : ~Less(v[i], v[k])
        /\ \A k \in 0 .. i - 1 : Less(v[k], v[i])

\* given the best scores prev of the paths for obs[0 .. t-1] by last state,
\* the scores of the best paths that enter state j at step t, by predecessor
ScoresInto(p, obs, t, prev, j) ==
    Array([i \in States(p) |->
              Mul(prev[i], Mul(p.trans_mat[i][j], p.obs_mat[j][obs[t]]))])

BestInto(v) == v[LowestBest(v)]

BestScoresAfter(p, obs, t, prev) ==
    Array([j \in States(p) |-> BestInto(ScoresInto(p, obs, t, prev, j))])

\* the scores of the best state paths for obs[0 .. t], by last state
RECURSIVE BestScores(_, _, _)
BestScores(p, obs, t) ==
    IF t = 0 THEN Array([j \in States(p) |-> InitTimesObs(p, obs[0], j)])
    ELSE BestScoresAfter(p, obs, t, BestScores(p, obs, t - 1))

\* the scores into j at step t, by predecessor
ScoreInto(p, obs, t, j) ==
    ScoresInto(p, obs, t, BestScores(p, obs, t - 1), j)

\* the lowest-indexed predecessor that gives the best score into j at step t
LowestBestSource(p, obs, t, j) == LowestBest(ScoreInto(p, obs, t, j))

\* the lowest-indexed state with the best final score
LowestBestFinal(p, obs) == LowestBest(BestScores(p, obs, Len0(obs) - 1))

\* the state at step t of the path these choices determine
RECURSIVE FirstMaximumState(_, _, _)
FirstMaximumState(p, obs, t) ==
    IF t = Len0(obs) - 1 THEN LowestBestFinal(p, obs)
    ELSE LowestBestSource(p, obs, t + 1, FirstMaximumState(p, obs, t + 1))

\* C28: the decoders return the path whose last state is the lowest-indexed
\* state with the best final score and whose state at each earlier step is
\* the lowest-indexed predecessor giving the best score into the next state
C28_FirstMaximum ==
    op \in ViterbiOps =>
        ret = [t \in 0 .. Len0(obs_seq) - 1 |->
                  FirstMaximumState(params, obs_seq, t)]

\* a path has been returned for a sequence of the longest length on which
\* two predecessors tie for the best score into a state of the path, two
\* final states tie for the best final score, and so another path is as
\* probable as the returned one
C28_Witness ==
    /\ op \in ViterbiOps
    /\ Len0(obs_seq) = MaxSeqLen
    /\ \E t \in 1 .. MaxSeqLen - 1 : \E i \in States(params) :
          /\ i > ret[t - 1]
          /\ ~IsZero(ScoreInto(params, obs_seq, t, ret[t])[i])
          /\ ScoreInto(params, obs_seq, t, ret[t])[i]
                = ScoreInto(params, obs_seq, t, ret[t])[ret[t - 1]]
    /\ \E j \in States(params) :
          /\ j > ret[MaxSeqLen - 1]
          /\ BestScores(params, obs_seq, MaxSeqLen - 1)[j]
                = BestScores(params, obs_seq, MaxSeqLen - 1)[ret[MaxSeqLen - 1]]
    /\ \E k \in 0 .. Pow(NStates(params), MaxSeqLen) - 1 :
          /\ PathOf(params, MaxSeqLen, k) # ret
          /\ PathProb(params, obs_seq, PathOf(params, MaxSeqLen, k),
                      MaxSeqLen - 1)
                = PathProb(params, obs_seq, ret, MaxSeqLen - 1)
    /\ ~IsZero(PathProb(params, obs_seq, ret, MaxSeqLen - 1))

-----------------------------------------------------------------------------
\* p(obs[0 .. t-1] | model), the product of no factor for t = 0
PrefixLikelihood(p, obs, t) == IF t = 0 THEN One ELSE Likelihood(p, obs, t)

\* step t is the first whose symbol no state with predicted mass can emit:
\* the model can emit obs[0 .. t-1] and cannot emit obs[0 .. t]
FirstImpossible(p, obs, t) ==
    /\ ~IsZero(PrefixLikelihood(p, obs, t))
    /\ IsZero(Likelihood(p, obs, t + 1))

-----------------------------------------------------------------------------
\* a sum that is a number other than zero
NonZeroSum(v) == IsFinite(VSum(v)) /\ ~IsZero(VSum(v))

\* an entry of the matrix old that is zero, in a row whose counts have a
\* non-zero sum, is zero in the matrix new
RowZerosKept(old, counts, new) ==
    \A i \in DOMAIN old : \A j \in DOMAIN old[i] :
        (IsZero(old[i][j]) /\ NonZeroSum(counts[i])) => IsZero(new[i][j])

VecZerosKept(old, counts, new) ==
    \A i \in DOMAIN old :
        (IsZero(old[i]) /\ NonZeroSum(counts)) => IsZero(new[i])

\* an epoch without priors has run: params is the model entering it
EpochWithoutPriors == IsNone(m_priors) /\ epoch' = epoch + 1

\* every zero entry of the model old is zero in the model new
ZerosOf(old, new) ==
    /\ \A i \in DOMAIN old.trans_mat : \A j \in DOMAIN old.trans_mat[i] :
          IsZero(old.trans_mat[i][j]) => IsZero(new.trans_mat[i][j])
    /\ \A i \in DOMAIN old.obs_mat : \A o \in DOMAIN old.obs_mat[i] :
          IsZero(old.obs_mat[i][o]) => IsZero(new.obs_mat[i][o])
    /\ \A i \in DOMAIN old.init_dist :
          IsZero(old.init_dist[i]) => IsZero(new.init_dist[i])

=============================================================================
